---- MODULE Spec2Model ----
(***************************************************************************)
(* State-machine model of the FanControl Stream Deck encoder action        *)
(* (src/actions/fan-control-encoder.ts): the session state of the          *)
(* singleton action, the debounced write, the mode selection, the periodic *)
(* poll and the read/modify/write operations on FanControl's JSON          *)
(* configuration file.                                                     *)
(*                                                                         *)
(* The file is modelled by its parsed JSON value; JSON.parse followed by   *)
(* JSON.stringify keeps every field of that value, so a write is the       *)
(* parsed value with the assigned fields replaced.  Optional JSON fields   *)
(* and nullable numbers are options: None (absent/null) or Some(x).        *)
(* Numbers are fixed-point (Scale parts per unit).  Timers are untimed: an  *)
(* armed timer may fire at any later moment.                               *)
(***************************************************************************)
EXTENDS Integers, Sequences, FiniteSets, TLC

\* ---------------------------------------------------------------- options

None == <<>>
Some(x) == <<x>>
Get(o) == o[1]

\* JS null / undefined of a string-valued field
Null == "null"

\* ---------------------------------------------------------------- bounds

\* Number of non-hidden curves an external file of the model may list
MaxCurves == 2

\* Number of precondition checks (performUacChecks) that may be in flight
MaxInFlight == 1

\* Resolution of the numbers: a JS number is modelled in fixed point, as an
\* integer count of 1/Scale, so that a fraction the file holds stays one
Scale == 2

\* ------------------------------------------------------- program constants

MinValue == 0
MaxValue == 100

\* ---------------------------------------------------------------- numbers

\* The whole number n, and n plus k parts of Scale
Num(n) == n * Scale
Fraction(n, k) == n * Scale + k
IsWhole(x) == x % Scale = 0

\* ------------------------------------------------------------ the fixtures

Dials == {"A", "B"}

ExePath == "FanControl.exe"
CfgPath == "userConfig.json"
FanNick == "CPU"
OtherNick == "GPU"

AllCurveNames == <<"c1", "c2", "c3", "c4">>

ControlModes == {"AUTO", "MAN", "SOFT"}

\* ------------------------------------------------------ configuration file

NoFile == [kind |-> "missing"]
CorruptFile == [kind |-> "corrupt"]

Control(nick, hidden, enable, manual, value, sel, extra) ==
    [NickName |-> nick, IsHidden |-> hidden, Enable |-> enable,
     ManualControl |-> manual, ManualControlValue |-> value,
     SelectedFanCurve |-> sel, Extra |-> extra]

CurveRef(name, extra) == [Name |-> name, Extra |-> extra]

Curve(name, hidden) == [Name |-> name, IsHidden |-> hidden]

JsonFile(controls, curves, other) ==
    [kind |-> "json", Controls |-> controls, FanCurves |-> curves, Other |-> other]

\* fanCurves.map(c => c.Name), the filter left out
AvailableCurvesUnfiltered(curves) == [k \in 1..Len(curves) |-> curves[k].Name]

\* fanCurves.filter(c => c.Name && !c.IsHidden).map(c => c.Name)
RECURSIVE AvailableCurves(_)
AvailableCurves(curves) ==
    IF curves = <<>> THEN <<>>
    ELSE LET c == Head(curves)
             rest == AvailableCurves(Tail(curves))
         IN  IF c.Name # "" /\ ~c.IsHidden THEN <<c.Name>> \o rest ELSE rest

\* controls.find(c => c.NickName === fanNick): hidden entries found too
FindControlHiddenToo(controls, fanNick) ==
    LET hits == {k \in 1..Len(controls) : controls[k].NickName = fanNick}
    IN  IF hits = {} THEN 0
        ELSE CHOOSE k \in hits : \A j \in hits : k <= j

\* controls.find(c => c.NickName === fanNick && !c.IsHidden): index or 0
FindControl(controls, fanNick) ==
    LET hits == {k \in 1..Len(controls) :
                    controls[k].NickName = fanNick /\ ~controls[k].IsHidden}
    IN  IF hits = {} THEN 0
        ELSE CHOOSE k \in hits : \A j \in hits : k <= j

\* curves.indexOf(name), 0-based, -1 when absent
IndexOf(seq, x) ==
    LET hits == {k \in 1..Len(seq) : seq[k] = x}
    IN  IF hits = {} THEN -1
        ELSE (CHOOSE k \in hits : \A j \in hits : k <= j) - 1

\* A ManualControlValue that Number() turns into NaN (a text, an object)
NonNumeric == <<"text", "NaN">>

\* Number(ctrl.ManualControlValue), 0 when not finite
NumberOrZero(v) == IF v = None \/ Len(v) # 1 THEN Num(0) ELSE Get(v)

FanState(mode, value, curveName, availableCurves) ==
    [mode |-> mode, value |-> value, curveName |-> curveName,
     availableCurves |-> availableCurves]

\* ModeOfFlags testing ManualControl before Enable
ModeOfFlagsManualFirst(enable, manual) ==
    IF manual = Some(TRUE) THEN "MAN"
    ELSE IF enable = Some(TRUE) THEN "SOFT" ELSE "AUTO"

ModeOfFlags(enable, manual) ==
    IF enable = Some(FALSE) THEN "AUTO"
    ELSE IF enable = Some(TRUE)
         THEN IF manual = Some(TRUE) THEN "MAN" ELSE "SOFT"
         ELSE "AUTO"

HasCurveName(ctrl) ==
    ctrl.SelectedFanCurve # None /\ Get(ctrl.SelectedFanCurve).Name # ""

readFanStateFromJson(f, jsonPath, fanNick) ==
    IF jsonPath = Null \/ fanNick = Null THEN None
    ELSE IF f.kind = "missing" THEN None
    ELSE IF f.kind = "corrupt" THEN None
    ELSE LET k == FindControl(f.Controls, fanNick)
         IN  IF k = 0 THEN None
             ELSE LET ctrl == f.Controls[k]
                  IN  Some(FanState(
                        ModeOfFlags(ctrl.Enable, ctrl.ManualControl),
                        NumberOrZero(ctrl.ManualControlValue),
                        IF HasCurveName(ctrl)
                            THEN Get(ctrl.SelectedFanCurve).Name ELSE "Unknown",
                        AvailableCurves(f.FanCurves)))

\* A write returns the file after the call and the function's result
WriteResult(f, result) == [file |-> f, result |-> result]

\* setFanModeInJson with the MAN branch also resetting ManualControlValue
setFanModeInJsonResetsValue(f, jsonPath, fanNick, targetMode) ==
    IF f.kind # "json" THEN WriteResult(f, None)
    ELSE LET k == FindControl(f.Controls, fanNick)
             availableCurves == AvailableCurves(f.FanCurves)
         IN  IF k = 0 THEN WriteResult(f, None)
             ELSE IF targetMode = "SOFT" /\ Len(availableCurves) = 0
                  THEN WriteResult(f, None)
             ELSE LET old == f.Controls[k]
                      ctrl ==
                        IF targetMode = "AUTO"
                        THEN [old EXCEPT !.Enable = Some(FALSE),
                                         !.ManualControl = Some(FALSE)]
                        ELSE IF targetMode = "MAN"
                        THEN [old EXCEPT !.Enable = Some(TRUE),
                                         !.ManualControl = Some(TRUE),
                                         !.ManualControlValue = Some(Num(0))]
                        ELSE [old EXCEPT !.Enable = Some(TRUE),
                                         !.ManualControl = Some(FALSE),
                                         !.SelectedFanCurve =
                                            IF HasCurveName(old) THEN @
                                            ELSE Some(CurveRef(availableCurves[1], None))]
                  IN  WriteResult(
                        [f EXCEPT !.Controls[k] = ctrl],
                        Some(FanState(targetMode,
                                      NumberOrZero(ctrl.ManualControlValue),
                                      IF HasCurveName(ctrl)
                                          THEN Get(ctrl.SelectedFanCurve).Name
                                          ELSE "None",
                                      availableCurves)))

setFanModeInJson(f, jsonPath, fanNick, targetMode) ==
    IF f.kind # "json" THEN WriteResult(f, None)
    ELSE LET k == FindControl(f.Controls, fanNick)
             availableCurves == AvailableCurves(f.FanCurves)
         IN  IF k = 0 THEN WriteResult(f, None)
             ELSE IF targetMode = "SOFT" /\ Len(availableCurves) = 0
                  THEN WriteResult(f, None)
             ELSE LET old == f.Controls[k]
                      ctrl ==
                        IF targetMode = "AUTO"
                        THEN [old EXCEPT !.Enable = Some(FALSE),
                                         !.ManualControl = Some(FALSE)]
                        ELSE IF targetMode = "MAN"
                        THEN [old EXCEPT !.Enable = Some(TRUE),
                                         !.ManualControl = Some(TRUE)]
                        ELSE [old EXCEPT !.Enable = Some(TRUE),
                                         !.ManualControl = Some(FALSE),
                                         !.SelectedFanCurve =
                                            IF HasCurveName(old) THEN @
                                            ELSE Some(CurveRef(availableCurves[1], None))]
                  IN  WriteResult(
                        [f EXCEPT !.Controls[k] = ctrl],
                        Some(FanState(targetMode,
                                      NumberOrZero(ctrl.ManualControlValue),
                                      IF HasCurveName(ctrl)
                                          THEN Get(ctrl.SelectedFanCurve).Name
                                          ELSE "None",
                                      availableCurves)))

\* if (v < 0) v = 0; if (v > 100) v = 100;
ClampWrite(value) ==
    IF value < Num(MinValue) THEN Num(MinValue)
    ELSE IF value > Num(MaxValue) THEN Num(MaxValue) ELSE value

\* setManualValueInJson without lines 853-854: the flags are left as found
setManualValueInJsonKeepsFlags(f, jsonPath, fanNick, value) ==
    IF f.kind # "json" THEN WriteResult(f, None)
    ELSE LET k == FindControl(f.Controls, fanNick)
         IN  IF k = 0 THEN WriteResult(f, None)
             ELSE LET v == ClampWrite(value)
                  IN  WriteResult(
                        [f EXCEPT !.Controls[k].ManualControlValue = Some(v)],
                        Some(FanState("MAN", v, "", <<>>)))

\* setManualValueInJson saving the entry it changed and none of the others
setManualValueInJsonEntryOnly(f, jsonPath, fanNick, value) ==
    IF f.kind # "json" THEN WriteResult(f, None)
    ELSE LET k == FindControl(f.Controls, fanNick)
         IN  IF k = 0 THEN WriteResult(f, None)
             ELSE LET v == ClampWrite(value)
                  IN  WriteResult(
                        [f EXCEPT !.Controls =
                            << [f.Controls[k] EXCEPT !.Enable = Some(TRUE),
                                                     !.ManualControl = Some(TRUE),
                                                     !.ManualControlValue = Some(v)] >>],
                        Some(FanState("MAN", v, "", <<>>)))

setManualValueInJson(f, jsonPath, fanNick, value) ==
    IF f.kind # "json" THEN WriteResult(f, None)
    ELSE LET k == FindControl(f.Controls, fanNick)
         IN  IF k = 0 THEN WriteResult(f, None)
             ELSE LET v == ClampWrite(value)
                  IN  WriteResult(
                        [f EXCEPT !.Controls[k].Enable = Some(TRUE),
                                  !.Controls[k].ManualControl = Some(TRUE),
                                  !.Controls[k].ManualControlValue = Some(v)],
                        Some(FanState("MAN", v, "", <<>>)))

\* setSoftwareCurveInJson without lines 881-882: the flags are left as found
setSoftwareCurveInJsonKeepsFlags(f, jsonPath, fanNick, curveName) ==
    IF f.kind # "json" THEN WriteResult(f, None)
    ELSE LET k == FindControl(f.Controls, fanNick)
         IN  IF k = 0 THEN WriteResult(f, None)
             ELSE WriteResult(
                    [f EXCEPT !.Controls[k].SelectedFanCurve =
                                    Some(CurveRef(curveName, None))],
                    Some(FanState("SOFT", Num(0), curveName, <<>>)))

setSoftwareCurveInJson(f, jsonPath, fanNick, curveName) ==
    IF f.kind # "json" THEN WriteResult(f, None)
    ELSE LET k == FindControl(f.Controls, fanNick)
         IN  IF k = 0 THEN WriteResult(f, None)
             ELSE WriteResult(
                    [f EXCEPT !.Controls[k].Enable = Some(TRUE),
                              !.Controls[k].ManualControl = Some(FALSE),
                              !.Controls[k].SelectedFanCurve =
                                    Some(CurveRef(curveName, None))],
                    Some(FanState("SOFT", Num(0), curveName, <<>>)))

\* ------------------------------------------------------------- the display

ModeOrAuto(mode) == IF mode = Null THEN "AUTO" ELSE mode

buildTitle(fanNick) == IF fanNick = Null THEN "(no fan)" ELSE fanNick

\* ErrorType without the branch for the script alone (line 669)
ErrorTypeTaskOnly(taskMissing, vbsMissing) ==
    IF vbsMissing /\ taskMissing THEN "BOTH"
    ELSE IF taskMissing THEN "TASK"
    ELSE "NONE"

ErrorType(taskMissing, vbsMissing) ==
    IF vbsMissing /\ taskMissing THEN "BOTH"
    ELSE IF vbsMissing THEN "FILE"
    ELSE IF taskMissing THEN "TASK"
    ELSE "NONE"

\* pct of a payload whose value text is not a percentage
NoPct == -1

\* Math.max(0, Math.min(100, value))
ClampShown(value) ==
    IF value > Num(MaxValue) THEN Num(MaxValue)
    ELSE IF value < Num(MinValue) THEN Num(MinValue) ELSE value

\* The payload: the banner, the title, the mode label and the value text of
\* the panel image (a percentage is text "%" with pct), whether the image is
\* the blue selection panel, whether the bar is drawn, and indicator.value.
Payload(banner, title, modeLabel, text, pct, select, bar, indicator) ==
    [banner |-> banner, title |-> title, modeLabel |-> modeLabel, text |-> text,
     pct |-> pct, select |-> select, bar |-> bar, indicator |-> indicator]

\* buildFeedbackPayload labelling the selection panel with the mode read
\* from the file instead of the candidate (lines 700-703)
buildFeedbackPayloadPersistedLabel(title, mode, value, curveName, msa, pm, taskMissing, vbsMissing) ==
    LET errorType == ErrorType(taskMissing, vbsMissing)
        v == ClampShown(value)
        displayValue ==
            IF mode = "MAN" THEN "%"
            ELSE IF mode = "AUTO" THEN "AUTO"
            ELSE IF curveName # "" THEN curveName ELSE "Curve"
        barValue == IF mode = "MAN" THEN v ELSE 0
        modeLabel == IF mode = "SOFT" THEN "CURVE" ELSE mode
        candidate ==
            IF mode = "MAN" THEN "MANUAL"
            ELSE IF mode = "AUTO" THEN "AUTO" ELSE "CURVE"
    IN  IF errorType # "NONE"
        THEN Payload(errorType, "ERROR", "", "ERR", NoPct, FALSE, FALSE, 0)
        ELSE IF msa
        THEN Payload("NONE", "SELECT MODE", modeLabel, candidate, NoPct,
                     TRUE, FALSE, barValue)
        ELSE Payload("NONE", title, modeLabel, displayValue,
                     IF mode = "MAN" THEN v ELSE NoPct,
                     FALSE, mode = "MAN", barValue)

buildFeedbackPayload(title, mode, value, curveName, msa, pm, taskMissing, vbsMissing) ==
    LET errorType == ErrorType(taskMissing, vbsMissing)
        v == ClampShown(value)
        displayValue ==
            IF mode = "MAN" THEN "%"
            ELSE IF mode = "AUTO" THEN "AUTO"
            ELSE IF curveName # "" THEN curveName ELSE "Curve"
        barValue == IF mode = "MAN" THEN v ELSE 0
        modeLabel == IF mode = "SOFT" THEN "CURVE" ELSE mode
        candidate ==
            IF pm = "MAN" THEN "MANUAL"
            ELSE IF pm = "AUTO" THEN "AUTO" ELSE "CURVE"
    IN  IF errorType # "NONE"
        THEN Payload(errorType, "ERROR", "", "ERR", NoPct, FALSE, FALSE, 0)
        ELSE IF msa
        THEN Payload("NONE", "SELECT MODE", modeLabel, candidate, NoPct,
                     TRUE, FALSE, barValue)
        ELSE Payload("NONE", title, modeLabel, displayValue,
                     IF mode = "MAN" THEN v ELSE NoPct,
                     FALSE, mode = "MAN", barValue)

\* What one call shows and whether it stores the file's mode in the settings
updateDisplayFromState(f, settings, updateSettingsIfChanged, msa, pm, taskMissing, vbsMissing) ==
    LET stateFromFile ==
            readFanStateFromJson(f, settings.jsonFile, settings.fanNick)
        state == IF stateFromFile = None
                 THEN FanState(ModeOrAuto(settings.mode), Num(0), "None", <<>>)
                 ELSE Get(stateFromFile)
        displayTitle == IF msa THEN "SELECT MODE" ELSE buildTitle(settings.fanNick)
    IN  [payload |-> buildFeedbackPayload(displayTitle, state.mode, state.value,
                         state.curveName, msa, pm, taskMissing, vbsMissing),
         store |-> ~msa /\ ~(taskMissing \/ vbsMissing)
                    /\ updateSettingsIfChanged /\ settings.mode # state.mode,
         newSettings |-> [settings EXCEPT !.mode = state.mode]]

\* --------------------------------------------------------------- the launch

\* What launchFanControlConfig spawns: "vbs", "task", "exe" or "nothing"
\* launchFanControlConfig spawning the executable where the script is missing
\* (line 938)
launchFanControlConfigExeFallback(exePath, jsonPath, bypassUac, exeExists, taskMissing, vbsMissing) ==
    IF exePath = Null \/ ~exeExists THEN "nothing"
    ELSE IF jsonPath = Null THEN "nothing"
    ELSE IF bypassUac
         THEN IF ~taskMissing /\ ~vbsMissing THEN "vbs"
              ELSE IF ~taskMissing THEN "exe"
              ELSE "nothing"
    ELSE "exe"

launchFanControlConfig(exePath, jsonPath, bypassUac, exeExists, taskMissing, vbsMissing) ==
    IF exePath = Null \/ ~exeExists THEN "nothing"
    ELSE IF jsonPath = Null THEN "nothing"
    ELSE IF bypassUac
         THEN IF ~taskMissing /\ ~vbsMissing THEN "vbs"
              ELSE IF ~taskMissing THEN "task"
              ELSE "nothing"
    ELSE "exe"

\* ------------------------------------------------------------ mode cycling

Modes == <<"AUTO", "MAN", "SOFT">>

\* cyclePendingMode stopping at either end of the list instead of wrapping
cyclePendingModeNoWrap(pm, ticks) ==
    LET found == IndexOf(Modes, pm)
        idx == IF found = -1 THEN 0 ELSE found
        next == IF ticks > 0
                THEN IF idx + 1 >= Len(Modes) THEN idx ELSE idx + 1
                ELSE IF idx - 1 < 0 THEN idx ELSE idx - 1
    IN  Modes[next + 1]

cyclePendingMode(pm, ticks) ==
    LET found == IndexOf(Modes, pm)
        idx == IF found = -1 THEN 0 ELSE found
        next == IF ticks > 0
                THEN IF idx + 1 >= Len(Modes) THEN 0 ELSE idx + 1
                ELSE IF idx - 1 < 0 THEN Len(Modes) - 1 ELSE idx - 1
    IN  Modes[next + 1]

\* ------------------------------------------------------------- dial rotate

\* The new value without its upper limit
NewManualValueNoUpper(baseValue, ticks) ==
    LET newValue == baseValue + Num(ticks)
    IN  IF newValue < Num(MinValue) THEN Num(MinValue) ELSE newValue

\* let newValue = baseValue + ticks, clamped to 0..100
NewManualValue(baseValue, ticks) ==
    LET newValue == baseValue + Num(ticks)
    IN  IF newValue < Num(MinValue) THEN Num(MinValue)
        ELSE IF newValue > Num(MaxValue) THEN Num(MaxValue) ELSE newValue

\* let newIndex = currentIndex + ticks, reset at either end of the list
NewCurveIndex(currentIndex, ticks, length) ==
    LET newIndex == currentIndex + ticks
    IN  IF newIndex < 0 THEN length - 1
        ELSE IF newIndex >= length THEN 0 ELSE newIndex

\* ---------------------------------------------------------------- the state

VARIABLES
    file,                    \* the configuration file at CfgPath
    scope,                   \* names the inputs the environment of this run draws from
    env,                     \* host: scheduled task, helper script, executable
    hostSettings,            \* the settings Stream Deck holds per dial
    visible,                 \* dials that appeared and did not disappear
    currentSettings,         \* Map<string, FanSettings>
    activeIntervals,         \* Map<string, Timeout>: the poll timer's handle
    modeSelectionActive,
    pendingMode,
    isTaskMissing,
    isVbsMissing,
    pendingValueTimer,       \* handle of the debounce timer or None
    pendingValue,
    pendingCurveIndex,
    pendingJsonPath,
    pendingFanNick,
    pendingFanExe,
    pendingBypassUac,
    selectModeTimeoutTimer,  \* handle of the mode-selection timeout or None
    lastFanNick,
    lastJsonPath,
    timers,                  \* the armed timers of the event loop
    inflight,                \* performUacChecks calls awaiting schtasks, with what
                             \* their caller does next ("display" or "settings")
    fx                       \* what the last handler did to the outside

session == <<modeSelectionActive, pendingMode, isTaskMissing, isVbsMissing,
             pendingValueTimer, pendingValue, pendingCurveIndex, pendingJsonPath,
             pendingFanNick, pendingFanExe, pendingBypassUac,
             selectModeTimeoutTimer, lastFanNick, lastJsonPath>>

vars == <<scope, file, env, hostSettings, visible, currentSettings, activeIntervals,
          session, timers, inflight, fx>>

Settings(fanExe, jsonFile, fanNick, mode, bypassUac) ==
    [fanExe |-> fanExe, jsonFile |-> jsonFile, fanNick |-> fanNick,
     mode |-> mode, bypassUac |-> bypassUac]

\* A timer of the event loop: its kind, its handle and the dial its callback
\* closes over
Timer(kind, id, ctx) == [kind |-> kind, id |-> id, ctx |-> ctx]

\* setTimeout / setInterval: a handle no armed timer of that kind has
NewTimerId(kind, ts) ==
    LET used == {t.id : t \in {u \in ts : u.kind = kind}}
    IN  CHOOSE n \in 1..(Cardinality(used) + 1) :
            n \notin used /\ \A m \in 1..(n - 1) : m \in used

\* clearTimeout / clearInterval on a handle (None: nothing to clear)
ClearTimer(kind, handle, ts) ==
    IF handle = None THEN ts
    ELSE {t \in ts : ~(t.kind = kind /\ t.id = Get(handle))}

\* What the session was doing when a handler started: selecting a mode,
\* holding a buffered edit, or neither
Phase ==
    IF modeSelectionActive THEN "selecting"
    ELSE IF pendingValue # None \/ pendingCurveIndex # None THEN "editing"
    ELSE "idle"

\* What the last step did: the handler that ran and the phase it started in,
\* its successful file write ("none", "mode", "manual", "curve"), what
\* launchFanControlConfig spawned ("none" when it was not called), whether
\* showAlert was called and the payload setFeedback sent (None when it was
\* not called).  raced says of a write that the file was replaced from
\* outside, while the edit or the selection was pending, just before it.
Effects(ev, write, launch, alert, shown) ==
    [ev |-> ev, from |-> Phase, write |-> write, launch |-> launch,
     alert |-> alert, shown |-> shown,
     raced |-> write # "none" /\ fx.ev = "externalWrite" /\ Phase # "idle"]

\* -------------------------------------------------------------- the inputs

FlagsOfMode(mode) ==
    IF mode = "AUTO" THEN <<Some(FALSE), Some(FALSE)>>
    ELSE IF mode = "MAN" THEN <<Some(TRUE), Some(TRUE)>>
    ELSE <<Some(TRUE), Some(FALSE)>>

\* A configuration file: a hidden entry of the same nickname, the dial's
\* entry, another fan's entry, a hidden curve and n listed curves
MkFile(mode, value, sel, n) ==
    JsonFile(
        << Control(FanNick, TRUE, Some(TRUE), Some(TRUE), Some(Num(77)), None, "twin"),
           Control(FanNick, FALSE, FlagsOfMode(mode)[1], FlagsOfMode(mode)[2],
                   value, sel, "cpu"),
           Control(OtherNick, FALSE, Some(FALSE), Some(FALSE), Some(Num(30)), None, "gpu") >>,
        << Curve("hid", TRUE) >> \o [k \in 1..n |-> Curve(AllCurveNames[k], FALSE)],
        "other")

\* MkFile with the other fan's entry in MAN as well
MkPairFile(value, n) ==
    [MkFile("MAN", value, None, n) EXCEPT !.Controls[3].Enable = Some(TRUE),
                                          !.Controls[3].ManualControl = Some(TRUE)]

SelectedCurve(k) == Some(CurveRef(AllCurveNames[k], Some("id")))

\* A file in which the dial's fan was renamed: of its nickname only the
\* hidden entry is left
RenamedFile ==
    [MkFile("MAN", Some(Num(10)), None, MaxCurves) EXCEPT !.Controls[2].NickName = "SYS"]

\* A file FanControl saved after the user changed the other fan and a
\* setting outside the controls, and put the curves in another order
EditedElsewhere ==
    [MkFile("MAN", Some(Num(10)), SelectedCurve(1), MaxCurves)
        EXCEPT !.FanCurves = << Curve("hid", TRUE) >>
                             \o [k \in 1..MaxCurves |->
                                    Curve(AllCurveNames[MaxCurves + 1 - k], FALSE)],
               !.Controls[3].ManualControlValue = Some(Num(80)),
               !.Controls[3].Extra = "gpu2",
               !.Controls[2].Extra = "cpu2",
               !.Other = "other2"]

HostEnv(task, vbs, exe) == [task |-> task, vbs |-> vbs, exe |-> exe]

\* What the property inspector edits: executable, file, fan and bypass
Unconfigured == <<Null, Null, Null, FALSE>>
Configured == <<ExePath, CfgPath, FanNick, FALSE>>
WithBypass == <<ExePath, CfgPath, FanNick, TRUE>>
BypassNoExe == <<Null, CfgPath, FanNick, TRUE>>
ConfiguredOther == <<ExePath, CfgPath, OtherNick, FALSE>>

\* A scope bounds what the environment of one run does: the dials the
\* profile holds, the host it runs on,
\* the settings the property inspector sends, the mode the settings start
\* with, the files FanControl or the user put at CfgPath, whether they replace
\* the file during the run, and the tick counts of a rotation.  The model is the union of the runs of all scopes.
EditScope ==
    [dials |-> {"A"},
     envs |-> {HostEnv(TRUE, TRUE, TRUE)},
     pi |-> {Unconfigured, Configured},
     modes |-> ControlModes \cup {Null},
     files |-> {NoFile, CorruptFile, RenamedFile, EditedElsewhere}
               \cup {MkFile(m, Some(Num(10)), c[1], c[2]) :
                        m \in ControlModes,
                        c \in {<<None, 0>>, <<None, MaxCurves>>,
                               <<SelectedCurve(1), MaxCurves>>,
                               <<SelectedCurve(MaxCurves), MaxCurves>>}}
               \cup {MkFile("MAN", v, None, 0) :
                        v \in {None, Some(Num(145)), Some(Num(-35)),
                               Some(Fraction(10, 1))}},
     rewrites |-> TRUE,
     ticks |-> {-150, -45, 0, 45, 150}]

BypassScope ==
    [dials |-> {"A"},
     envs |-> {HostEnv(TRUE, TRUE, TRUE), HostEnv(FALSE, TRUE, TRUE),
               HostEnv(TRUE, FALSE, TRUE)},
     pi |-> {Configured, WithBypass, BypassNoExe},
     modes |-> {"MAN"},
     files |-> {MkFile("MAN", Some(Num(55)), None, 0)},
     rewrites |-> FALSE,
     ticks |-> {45}]

\* The scenario of small steps: +5 or -5 per rotation from a value of 10, the
\* file left to the plugin
StepScope ==
    [dials |-> {"A"},
     envs |-> {HostEnv(TRUE, TRUE, TRUE)},
     pi |-> {Configured},
     modes |-> {"MAN"},
     files |-> {MkFile("MAN", Some(Num(10)), None, 0)},
     rewrites |-> FALSE,
     ticks |-> {-5, 5}]

\* Two dials on one file, each for a fan of its own, the file left to the plugin
PairScope ==
    [dials |-> {"A", "B"},
     envs |-> {HostEnv(TRUE, TRUE, TRUE)},
     pi |-> {Configured},
     modes |-> {"MAN"},
     files |-> {MkPairFile(Some(Num(10)), 0)},
     rewrites |-> FALSE,
     ticks |-> {45}]

\* One dial, set up with bypass on a host that has the task and the script,
\* whose edits and selections meet a file that comes and goes
LiveScope ==
    [dials |-> {"A"},
     envs |-> {HostEnv(TRUE, TRUE, TRUE)},
     pi |-> {WithBypass},
     modes |-> {"MAN"},
     files |-> {NoFile, MkFile("MAN", Some(Num(10)), None, 0)},
     rewrites |-> TRUE,
     ticks |-> {45}]

Scopes == {"edit", "bypass", "step", "pair"}

ScopeOf(name) ==
    IF name = "edit" THEN EditScope
    ELSE IF name = "bypass" THEN BypassScope
    ELSE IF name = "step" THEN StepScope
    ELSE IF name = "live" THEN LiveScope
    ELSE PairScope

\* The configurations the property inspector may send for a dial: those of
\* the scope, the second dial of a pair being set up for the other fan
InspectorSettings(name, i) ==
    IF name = "pair" /\ i = "B" THEN {ConfiguredOther} ELSE ScopeOf(name).pi

\* The settings Stream Deck may hold for the dials at the start: those of the
\* scope for its dials, none for a dial the profile does not hold
InitialSettings(name) ==
    LET given(i) == {Settings(c[1], c[2], c[3], m, c[4]) :
                        c \in InspectorSettings(name, i), m \in ScopeOf(name).modes}
        absent == Settings(Null, Null, Null, Null, FALSE)
    IN  {hs \in [Dials -> UNION {given(i) : i \in Dials} \cup {absent}] :
            \A i \in Dials : IF i \in ScopeOf(name).dials THEN hs[i] \in given(i)
                              ELSE hs[i] = absent}

\* The state after construction, in a run of one of the scopes `names`
InitIn(names) ==
    /\ scope \in names
    /\ file \in ScopeOf(scope).files
    /\ env \in ScopeOf(scope).envs
    /\ hostSettings \in InitialSettings(scope)
    /\ visible = {}
    /\ currentSettings = [i \in Dials |-> None]
    /\ activeIntervals = [i \in Dials |-> None]
    /\ modeSelectionActive = FALSE
    /\ pendingMode = "AUTO"
    /\ isTaskMissing = FALSE
    /\ isVbsMissing = FALSE
    /\ pendingValueTimer = None
    /\ pendingValue = None
    /\ pendingCurveIndex = None
    /\ pendingJsonPath = Null
    /\ pendingFanNick = Null
    /\ pendingFanExe = Null
    /\ pendingBypassUac = FALSE
    /\ selectModeTimeoutTimer = None
    /\ lastFanNick = Null
    /\ lastJsonPath = Null
    /\ timers = {}
    /\ inflight = {}
    /\ fx = [ev |-> "init", from |-> "idle", write |-> "none", launch |-> "none",
             alert |-> FALSE, shown |-> None, raced |-> FALSE]

Init == InitIn(Scopes)

\* ------------------------------------------------------------ the helpers

pendingVars == <<pendingValueTimer, pendingValue, pendingCurveIndex,
                 pendingJsonPath, pendingFanNick, pendingFanExe, pendingBypassUac>>
errorVars == <<isTaskMissing, isVbsMissing>>
lastVars == <<lastFanNick, lastJsonPath>>
hostVars == <<scope, file, env, visible>>

\* The handle and the armed timers after arming a timer of `kind` for dial i,
\* the timer of the old handle cleared first
Rearm(kind, i, handle, ts) ==
    LET cleared == ClearTimer(kind, handle, ts)
        id == NewTimerId(kind, cleared)
    IN  [handle |-> Some(id), timers |-> cleared \cup {Timer(kind, id, i)}]

\* startSelectModeTimeout without clearSelectModeTimeout (line 128)
startSelectModeTimeoutNoClear(i, handle, ts) == Rearm("select", i, None, ts)

startSelectModeTimeout(i, handle, ts) == Rearm("select", i, handle, ts)

\* triggerDebounceWrite without its clearTimeout: the new timer is queued
\* behind the old one
triggerDebounceWriteQueues(i, handle, ts) == Rearm("debounce", i, None, ts)

triggerDebounceWrite(i, handle, ts) == Rearm("debounce", i, handle, ts)

\* The fields clearPendingValue resets; its clearTimeout is ClearTimer on timers
\* clearPendingValue without line 1048: the curve index is left buffered
clearPendingValueKeepsCurveIndex ==
    /\ pendingValueTimer' = None
    /\ pendingValue' = None
    /\ pendingJsonPath' = Null
    /\ pendingFanNick' = Null
    /\ pendingFanExe' = Null
    /\ UNCHANGED <<pendingCurveIndex, pendingBypassUac>>

\* clearPendingValue without lines 1045-1047: the write target is left
clearPendingValueKeepsTarget ==
    /\ pendingValueTimer' = None
    /\ pendingValue' = None
    /\ pendingCurveIndex' = None
    /\ UNCHANGED <<pendingJsonPath, pendingFanNick, pendingFanExe, pendingBypassUac>>

clearPendingValue ==
    /\ pendingValueTimer' = None
    /\ pendingValue' = None
    /\ pendingJsonPath' = Null
    /\ pendingFanNick' = Null
    /\ pendingFanExe' = Null
    /\ pendingCurveIndex' = None
    /\ UNCHANGED pendingBypassUac

\* startPolling: one interval per dial
startPolling(i, handles, ts) ==
    IF handles[i] # None THEN [handles |-> handles, timers |-> ts]
    ELSE LET id == NewTimerId("poll", ts)
         IN  [handles |-> [handles EXCEPT ![i] = Some(id)],
              timers |-> ts \cup {Timer("poll", id, i)}]

stopPolling(i, handles, ts) ==
    [handles |-> [handles EXCEPT ![i] = None],
     timers |-> ClearTimer("poll", handles[i], ts)]

\* setSettings / currentSettings.set of an updateDisplayFromState result r for
\* dial i, on top of the settings hs, cs
Store(i, r, hs, cs) ==
    /\ hostSettings' = IF r.store THEN [hs EXCEPT ![i] = r.newSettings] ELSE hs
    /\ currentSettings' = IF r.store THEN [cs EXCEPT ![i] = Some(r.newSettings)] ELSE cs

\* ------------------------------------------------------- lifecycle events

onWillAppear(i) ==
    /\ i \in ScopeOf(scope).dials
    /\ i \notin visible
    /\ LET settings == hostSettings[i]
           polled == startPolling(i, activeIntervals,
                                  ClearTimer("debounce", pendingValueTimer, timers))
           r == updateDisplayFromState(file, settings, TRUE, FALSE, pendingMode,
                                       FALSE, FALSE)
       IN  /\ settings.bypassUac => Cardinality(inflight) < MaxInFlight
           /\ modeSelectionActive' = FALSE
           /\ clearPendingValue
           /\ isTaskMissing' = FALSE
           /\ isVbsMissing' = FALSE
           /\ lastFanNick' = settings.fanNick
           /\ lastJsonPath' = settings.jsonFile
           /\ inflight' = IF settings.bypassUac
                          THEN inflight \cup {[then |-> "display", ctx |-> i,
                                               settings |-> settings]}
                          ELSE inflight
           /\ Store(i, r, hostSettings, [currentSettings EXCEPT ![i] = Some(settings)])
           /\ activeIntervals' = polled.handles
           /\ timers' = polled.timers
           /\ visible' = visible \cup {i}
           /\ fx' = Effects("onWillAppear", "none", "none", FALSE, Some(r.payload))
           /\ UNCHANGED <<scope, file, env, pendingMode, selectModeTimeoutTimer>>

onWillDisappear(i) ==
    /\ i \in visible
    /\ LET stopped == stopPolling(i, activeIntervals, timers)
       IN  /\ activeIntervals' = stopped.handles
           /\ timers' = stopped.timers
    /\ currentSettings' = [currentSettings EXCEPT ![i] = None]
    /\ visible' = visible \ {i}
    /\ fx' = Effects("onWillDisappear", "none", "none", FALSE, None)
    /\ UNCHANGED <<scope, file, env, hostSettings, session, inflight>>

onPropertyInspectorDidAppear(i) ==
    /\ i \in visible
    /\ LET settings == hostSettings[i]
       IN  /\ settings.bypassUac => Cardinality(inflight) < MaxInFlight
           /\ inflight' = IF settings.bypassUac
                          THEN inflight \cup {[then |-> "display", ctx |-> i,
                                               settings |-> settings]}
                          ELSE inflight
    /\ fx' = Effects("onPropertyInspectorDidAppear", "none", "none", FALSE, None)
    /\ UNCHANGED <<hostVars, hostSettings, currentSettings, activeIntervals,
                   session, timers>>

\* onDidReceiveSettings from "2. Handle path changes" on, with the flags
\* msa, tm, vm, the armed timers ts and the settings hs, cs the handler has by then
SettingsTail(i, settings, msa, tm, vm, ts, hs, cs, alert) ==
    LET pathChanged == settings.jsonFile # Null /\ settings.jsonFile # lastJsonPath
        polled == startPolling(i, activeIntervals, ts)
        r == updateDisplayFromState(file, settings, TRUE, msa, pendingMode, tm, vm)
    IN  /\ lastJsonPath' = IF pathChanged THEN settings.jsonFile ELSE lastJsonPath
        /\ lastFanNick' = settings.fanNick
        /\ activeIntervals' = polled.handles
        /\ timers' = polled.timers
        /\ Store(i, r, hs, cs)
        /\ fx' = Effects("onDidReceiveSettings", "none",
                         IF pathChanged /\ settings.fanExe # Null
                         THEN launchFanControlConfig(settings.fanExe, settings.jsonFile,
                                  settings.bypassUac, env.exe, tm, vm)
                         ELSE "none",
                         alert, Some(r.payload))

\* The property inspector changed the executable, file, fan or bypass of dial i
onDidReceiveSettings(i, c) ==
    /\ i \in visible
    /\ LET settings == Settings(c[1], c[2], c[3], hostSettings[i].mode, c[4])
           hs == [hostSettings EXCEPT ![i] = settings]
           cs == [currentSettings EXCEPT ![i] = Some(settings)]
           ts == ClearTimer("debounce", pendingValueTimer, timers)
       IN  /\ modeSelectionActive' = FALSE
           /\ clearPendingValue
           /\ IF settings.bypassUac
              THEN /\ Cardinality(inflight) < MaxInFlight
                   /\ inflight' = inflight \cup {[then |-> "settings", ctx |-> i,
                                                  settings |-> settings]}
                   /\ hostSettings' = hs
                   /\ currentSettings' = cs
                   /\ timers' = ts
                   /\ fx' = Effects("onDidReceiveSettings", "none", "none", FALSE, None)
                   /\ UNCHANGED <<errorVars, lastVars, activeIntervals>>
              ELSE /\ isTaskMissing' = FALSE
                   /\ isVbsMissing' = FALSE
                   /\ SettingsTail(i, settings, FALSE, FALSE, FALSE, ts, hs, cs, FALSE)
                   /\ UNCHANGED inflight
    /\ UNCHANGED <<hostVars, pendingMode, selectModeTimeoutTimer>>

\* performUacChecks: schtasks answered; both flags are set in the same turn
TaskMissingNow == ~env.task
\* The script check without the branch for a missing executable path (908-910)
VbsMissingNowNeedsNoExe(settings) == ~env.vbs

VbsMissingNow(settings) == IF settings.fanExe # Null THEN ~env.vbs ELSE TRUE

\* ... then the rest of onWillAppear's .then() or of onPropertyInspectorDidAppear
UacChecksThenDisplay(c) ==
    /\ c \in inflight
    /\ c.then = "display"
    /\ inflight' = inflight \ {c}
    /\ isTaskMissing' = TaskMissingNow
    /\ isVbsMissing' = VbsMissingNow(c.settings)
    /\ LET r == updateDisplayFromState(file, c.settings, FALSE, modeSelectionActive,
                    pendingMode, TaskMissingNow, VbsMissingNow(c.settings))
       IN  /\ Store(c.ctx, r, hostSettings, currentSettings)
           /\ fx' = Effects("performUacChecks", "none", "none", FALSE, Some(r.payload))
    /\ UNCHANGED <<hostVars, activeIntervals, modeSelectionActive, pendingMode,
                   pendingVars, selectModeTimeoutTimer, lastVars, timers>>

\* ... then the rest of onDidReceiveSettings
UacChecksThenSettings(c) ==
    /\ c \in inflight
    /\ c.then = "settings"
    /\ inflight' = inflight \ {c}
    /\ isTaskMissing' = TaskMissingNow
    /\ isVbsMissing' = VbsMissingNow(c.settings)
    /\ SettingsTail(c.ctx, c.settings, modeSelectionActive, TaskMissingNow,
                    VbsMissingNow(c.settings),
                    timers, hostSettings, currentSettings,
                    TaskMissingNow \/ VbsMissingNow(c.settings))
    /\ UNCHANGED <<hostVars, modeSelectionActive, pendingMode, pendingVars,
                   selectModeTimeoutTimer>>

\* ------------------------------------------------------------- dial events

\* A) without its validation for Software/Curve mode
ConfirmSelectionNoValidation(i, settings) ==
    LET targetMode == pendingMode
        currentMode == ModeOrAuto(settings.mode)
        nothingToDo == targetMode = currentMode
                       \/ settings.jsonFile = Null \/ settings.fanNick = Null
        w == setFanModeInJson(file, settings.jsonFile, settings.fanNick, targetMode)
        shown(f, st) ==
            updateDisplayFromState(f, st, FALSE, FALSE, pendingMode,
                                   isTaskMissing, isVbsMissing)
    IN  /\ timers' = ClearTimer("select", selectModeTimeoutTimer, timers)
        /\ selectModeTimeoutTimer' = None
        /\ modeSelectionActive' = FALSE
        /\ IF nothingToDo \/ w.result = None
           THEN /\ fx' = Effects("onDialDown", "none", "none", ~nothingToDo,
                                 Some(shown(file, settings).payload))
                /\ UNCHANGED <<file, hostSettings, currentSettings>>
           ELSE LET newSettings == [settings EXCEPT !.mode = Get(w.result).mode]
                IN  /\ file' = w.file
                    /\ hostSettings' = [hostSettings EXCEPT ![i] = newSettings]
                    /\ currentSettings' =
                            [currentSettings EXCEPT ![i] = Some(newSettings)]
                    /\ fx' = Effects("onDialDown", "mode",
                                     launchFanControlConfig(settings.fanExe,
                                         settings.jsonFile, settings.bypassUac, env.exe,
                                         isTaskMissing, isVbsMissing),
                                     FALSE, Some(shown(w.file, newSettings).payload))
        /\ UNCHANGED <<scope, env, visible, activeIntervals, pendingMode, errorVars,
                       pendingVars, lastVars, inflight>>

\* A) Confirm selection
ConfirmSelection(i, settings) ==
    LET targetMode == pendingMode
        currentMode == ModeOrAuto(settings.mode)
        state == readFanStateFromJson(file, settings.jsonFile, settings.fanNick)
        noCurves == targetMode = "SOFT"
                    /\ (state = None \/ Len(Get(state).availableCurves) = 0)
        nothingToDo == targetMode = currentMode
                       \/ settings.jsonFile = Null \/ settings.fanNick = Null
        w == setFanModeInJson(file, settings.jsonFile, settings.fanNick, targetMode)
        shown(f, st) ==
            updateDisplayFromState(f, st, FALSE, FALSE, pendingMode,
                                   isTaskMissing, isVbsMissing)
    IN  /\ timers' = ClearTimer("select", selectModeTimeoutTimer, timers)
        /\ selectModeTimeoutTimer' = None
        /\ modeSelectionActive' = FALSE
        /\ IF noCurves \/ nothingToDo \/ w.result = None
           THEN /\ fx' = Effects("onDialDown", "none", "none",
                                 noCurves \/ ~nothingToDo,
                                 Some(shown(file, settings).payload))
                /\ UNCHANGED <<file, hostSettings, currentSettings>>
           ELSE LET newSettings == [settings EXCEPT !.mode = Get(w.result).mode]
                IN  /\ file' = w.file
                    /\ hostSettings' = [hostSettings EXCEPT ![i] = newSettings]
                    /\ currentSettings' =
                            [currentSettings EXCEPT ![i] = Some(newSettings)]
                    /\ fx' = Effects("onDialDown", "mode",
                                     launchFanControlConfig(settings.fanExe,
                                         settings.jsonFile, settings.bypassUac, env.exe,
                                         isTaskMissing, isVbsMissing),
                                     FALSE, Some(shown(w.file, newSettings).payload))
        /\ UNCHANGED <<scope, env, visible, activeIntervals, pendingMode, errorVars,
                       pendingVars, lastVars, inflight>>

\* B) without its clearPendingValue
StartSelectionKeepsEdit(i, settings) ==
    LET armed == startSelectModeTimeout(i, selectModeTimeoutTimer, timers)
        r == updateDisplayFromState(file, settings, FALSE, TRUE,
                 ModeOrAuto(settings.mode), isTaskMissing, isVbsMissing)
    IN  /\ modeSelectionActive' = TRUE
        /\ pendingMode' = ModeOrAuto(settings.mode)
        /\ selectModeTimeoutTimer' = armed.handle
        /\ timers' = armed.timers
        /\ fx' = Effects("onDialDown", "none", "none", FALSE, Some(r.payload))
        /\ UNCHANGED <<hostVars, hostSettings, currentSettings, activeIntervals,
                       errorVars, pendingVars, lastVars, inflight>>

\* B) Start mode selection
StartSelection(i, settings) ==
    LET armed == startSelectModeTimeout(i, selectModeTimeoutTimer, timers)
        r == updateDisplayFromState(file, settings, FALSE, TRUE,
                 ModeOrAuto(settings.mode), isTaskMissing, isVbsMissing)
    IN  /\ modeSelectionActive' = TRUE
        /\ pendingMode' = ModeOrAuto(settings.mode)
        /\ selectModeTimeoutTimer' = armed.handle
        /\ clearPendingValue
        /\ timers' = ClearTimer("debounce", pendingValueTimer, armed.timers)
        /\ fx' = Effects("onDialDown", "none", "none", FALSE, Some(r.payload))
        /\ UNCHANGED <<hostVars, hostSettings, currentSettings, activeIntervals,
                       errorVars, lastVars, inflight>>

\* onDialDown without its return for a latched error
onDialDownUnguarded(i) ==
    /\ i \in visible
    /\ IF modeSelectionActive
       THEN ConfirmSelection(i, hostSettings[i])
       ELSE StartSelection(i, hostSettings[i])

onDialDown(i) ==
    /\ i \in visible
    /\ IF isTaskMissing \/ isVbsMissing
       THEN /\ fx' = Effects("onDialDown", "none", "none", TRUE, None)
            /\ UNCHANGED <<hostVars, hostSettings, currentSettings, activeIntervals,
                           session, timers, inflight>>
       ELSE IF modeSelectionActive
       THEN ConfirmSelection(i, hostSettings[i])
       ELSE StartSelection(i, hostSettings[i])

\* A) Cycle through modes
RotateSelection(i, settings, ticks) ==
    LET armed == startSelectModeTimeout(i, selectModeTimeoutTimer, timers)
        r == updateDisplayFromState(file, settings, FALSE, TRUE,
                 cyclePendingMode(pendingMode, ticks), isTaskMissing, isVbsMissing)
    IN  /\ pendingMode' = cyclePendingMode(pendingMode, ticks)
        /\ selectModeTimeoutTimer' = armed.handle
        /\ timers' = armed.timers
        /\ fx' = Effects("onDialRotate", "none", "none", FALSE, Some(r.payload))
        /\ UNCHANGED <<modeSelectionActive, pendingVars>>

\* The write target both value branches buffer, and the debounce timer
BufferTarget(i, settings) ==
    LET armed == triggerDebounceWrite(i, pendingValueTimer, timers)
    IN  /\ pendingJsonPath' = settings.jsonFile
        /\ pendingFanNick' = settings.fanNick
        /\ pendingFanExe' = settings.fanExe
        /\ pendingBypassUac' = settings.bypassUac
        /\ pendingValueTimer' = armed.handle
        /\ timers' = armed.timers

\* B) MAN, the base always the file's value
RotateManualFromFile(i, settings, currentState, ticks) ==
    LET newValue == NewManualValue(currentState.value, ticks)
    IN  /\ pendingValue' = Some(newValue)
        /\ pendingCurveIndex' = None
        /\ BufferTarget(i, settings)
        /\ fx' = Effects("onDialRotate", "none", "none", FALSE,
                Some(buildFeedbackPayload(buildTitle(settings.fanNick), "MAN",
                         newValue, "", modeSelectionActive, pendingMode,
                         isTaskMissing, isVbsMissing)))
        /\ UNCHANGED <<modeSelectionActive, pendingMode, selectModeTimeoutTimer>>

\* B) Normal operation, MAN
RotateManual(i, settings, currentState, ticks) ==
    LET baseValue == IF pendingValue # None THEN Get(pendingValue)
                     ELSE currentState.value
        newValue == NewManualValue(baseValue, ticks)
    IN  /\ pendingValue' = Some(newValue)
        /\ pendingCurveIndex' = None
        /\ BufferTarget(i, settings)
        /\ fx' = Effects("onDialRotate", "none", "none", FALSE,
                Some(buildFeedbackPayload(buildTitle(settings.fanNick), "MAN",
                         newValue, "", modeSelectionActive, pendingMode,
                         isTaskMissing, isVbsMissing)))
        /\ UNCHANGED <<modeSelectionActive, pendingMode, selectModeTimeoutTimer>>

\* B) Normal operation, SOFT
\* RotateCurve without line 482: a buffered percentage is left as it is
RotateCurveKeepsValue(i, settings, currentState, ticks) ==
    LET curves == currentState.availableCurves
        found == IF pendingCurveIndex # None THEN Get(pendingCurveIndex)
                 ELSE IndexOf(curves, currentState.curveName)
        currentIndex == IF found = -1 THEN 0 ELSE found
        newIndex == NewCurveIndex(currentIndex, ticks, Len(curves))
    IN  /\ pendingCurveIndex' = Some(newIndex)
        /\ UNCHANGED pendingValue
        /\ BufferTarget(i, settings)
        /\ fx' = Effects("onDialRotate", "none", "none", FALSE,
                Some(buildFeedbackPayload(buildTitle(settings.fanNick), "SOFT",
                         Num(0), curves[newIndex + 1], modeSelectionActive, pendingMode,
                         isTaskMissing, isVbsMissing)))
        /\ UNCHANGED <<modeSelectionActive, pendingMode, selectModeTimeoutTimer>>

RotateCurve(i, settings, currentState, ticks) ==
    LET curves == currentState.availableCurves
        found == IF pendingCurveIndex # None THEN Get(pendingCurveIndex)
                 ELSE IndexOf(curves, currentState.curveName)
        currentIndex == IF found = -1 THEN 0 ELSE found
        newIndex == NewCurveIndex(currentIndex, ticks, Len(curves))
    IN  /\ pendingCurveIndex' = Some(newIndex)
        /\ pendingValue' = None
        /\ BufferTarget(i, settings)
        /\ fx' = Effects("onDialRotate", "none", "none", FALSE,
                Some(buildFeedbackPayload(buildTitle(settings.fanNick), "SOFT",
                         Num(0), curves[newIndex + 1], modeSelectionActive, pendingMode,
                         isTaskMissing, isVbsMissing)))
        /\ UNCHANGED <<modeSelectionActive, pendingMode, selectModeTimeoutTimer>>

\* onDialRotate without its return for AUTO
RotateBranchNoAuto(settings, ticks) ==
    LET currentState ==
            readFanStateFromJson(file, settings.jsonFile, settings.fanNick)
    IN  IF isTaskMissing \/ isVbsMissing THEN "ignored"
        ELSE IF ticks = 0 THEN "ignored"
        ELSE IF modeSelectionActive THEN "select"
        ELSE IF settings.jsonFile = Null \/ settings.fanNick = Null THEN "ignored"
        ELSE IF currentState = None THEN "ignored"
        ELSE IF Get(currentState).mode \in {"MAN", "AUTO"} THEN "MAN"
        ELSE IF Len(Get(currentState).availableCurves) = 0 THEN "ignored"
        ELSE "SOFT"

\* Which branch of onDialRotate an event takes
\* onDialRotate without its return for a tick count of 0 (line 409)
RotateBranchNoZeroGuard(settings, ticks) ==
    LET currentState ==
            readFanStateFromJson(file, settings.jsonFile, settings.fanNick)
    IN  IF isTaskMissing \/ isVbsMissing THEN "ignored"
        ELSE IF modeSelectionActive THEN "select"
        ELSE IF settings.jsonFile = Null \/ settings.fanNick = Null THEN "ignored"
        ELSE IF currentState = None THEN "ignored"
        ELSE IF Get(currentState).mode = "AUTO" THEN "ignored"
        ELSE IF Get(currentState).mode = "MAN" THEN "MAN"
        ELSE IF Len(Get(currentState).availableCurves) = 0 THEN "ignored"
        ELSE "SOFT"

RotateBranch(settings, ticks) ==
    LET currentState ==
            readFanStateFromJson(file, settings.jsonFile, settings.fanNick)
    IN  IF isTaskMissing \/ isVbsMissing THEN "ignored"
        ELSE IF ticks = 0 THEN "ignored"
        ELSE IF modeSelectionActive THEN "select"
        ELSE IF settings.jsonFile = Null \/ settings.fanNick = Null THEN "ignored"
        ELSE IF currentState = None THEN "ignored"
        ELSE IF Get(currentState).mode = "AUTO" THEN "ignored"
        ELSE IF Get(currentState).mode = "MAN" THEN "MAN"
        ELSE IF Len(Get(currentState).availableCurves) = 0 THEN "ignored"
        ELSE "SOFT"

onDialRotate(i, ticks) ==
    /\ i \in visible
    /\ LET settings == hostSettings[i]
           currentState ==
               Get(readFanStateFromJson(file, settings.jsonFile, settings.fanNick))
           branch == RotateBranch(settings, ticks)
       IN  IF branch = "ignored"
           THEN /\ fx' = Effects("onDialRotate", "none", "none", FALSE, None)
                /\ UNCHANGED <<modeSelectionActive, pendingMode, pendingVars,
                               selectModeTimeoutTimer, timers>>
           ELSE IF branch = "select" THEN RotateSelection(i, settings, ticks)
           ELSE IF branch = "MAN" THEN RotateManual(i, settings, currentState, ticks)
           ELSE RotateCurve(i, settings, currentState, ticks)
    /\ UNCHANGED <<hostVars, hostSettings, currentSettings, activeIntervals,
                   errorVars, lastVars, inflight>>

\* ---------------------------------------------------------- timer callbacks

\* The curve the flush writes for a buffered index
FlushCurveName(idx, curves) ==
    IF idx >= Len(curves) THEN curves[1] ELSE curves[idx + 1]

\* executePendingWrite without its calls of launchFanControlConfig
FlushResultNoLaunch ==
    LET w == IF pendingJsonPath = Null \/ pendingFanNick = Null \/ pendingValue = None
             THEN WriteResult(file, None)
             ELSE setManualValueInJson(file, pendingJsonPath, pendingFanNick,
                                       Get(pendingValue))
    IN  [file |-> w.file,
         fx |-> Effects("executePendingWrite",
                        IF w.result = None THEN "none" ELSE "manual",
                        "none", FALSE, None)]

\* executePendingWrite calling launchFanControlConfig whatever the write returned
FlushResultLaunchUnchecked ==
    LET jsonPath == pendingJsonPath
        fanNick == pendingFanNick
        launched == launchFanControlConfig(pendingFanExe, jsonPath,
                        pendingBypassUac, env.exe, isTaskMissing, isVbsMissing)
        state == readFanStateFromJson(file, jsonPath, fanNick)
        w == IF jsonPath = Null \/ fanNick = Null THEN WriteResult(file, None)
             ELSE IF pendingValue # None
             THEN setManualValueInJson(file, jsonPath, fanNick, Get(pendingValue))
             ELSE IF pendingCurveIndex # None /\ state # None
                     /\ Len(Get(state).availableCurves) > 0
             THEN setSoftwareCurveInJson(file, jsonPath, fanNick,
                      FlushCurveName(Get(pendingCurveIndex), Get(state).availableCurves))
             ELSE WriteResult(file, None)
    IN  [file |-> w.file,
         fx |-> Effects("executePendingWrite",
                        IF w.result = None THEN "none"
                        ELSE IF pendingValue # None THEN "manual" ELSE "curve",
                        launched, FALSE, None)]

\* The file and the effects of the body of executePendingWrite
FlushResult ==
    LET jsonPath == pendingJsonPath
        fanNick == pendingFanNick
        launched == launchFanControlConfig(pendingFanExe, jsonPath,
                        pendingBypassUac, env.exe, isTaskMissing, isVbsMissing)
        state == readFanStateFromJson(file, jsonPath, fanNick)
        w == IF jsonPath = Null \/ fanNick = Null THEN WriteResult(file, None)
             ELSE IF pendingValue # None
             THEN setManualValueInJson(file, jsonPath, fanNick, Get(pendingValue))
             ELSE IF pendingCurveIndex # None /\ state # None
                     /\ Len(Get(state).availableCurves) > 0
             THEN setSoftwareCurveInJson(file, jsonPath, fanNick,
                      FlushCurveName(Get(pendingCurveIndex), Get(state).availableCurves))
             ELSE WriteResult(file, None)
    IN  [file |-> w.file,
         fx |-> IF w.result = None THEN Effects("executePendingWrite", "none", "none", FALSE, None)
                ELSE Effects("executePendingWrite", IF pendingValue # None THEN "manual" ELSE "curve",
                             launched, FALSE, None)]

\* The debounce timer t fires
\* executePendingWrite clearing the buffered edit only when its write succeeded
executePendingWriteKeepsFailedEdit(t) ==
    /\ t \in timers
    /\ t.kind = "debounce"
    /\ timers' = timers \ {t}
    /\ pendingValueTimer' = None
    /\ file' = FlushResult.file
    /\ fx' = FlushResult.fx
    /\ IF FlushResult.fx.write = "none"
       THEN UNCHANGED <<pendingValue, pendingCurveIndex>>
       ELSE IF pendingValue # None
       THEN pendingValue' = None /\ UNCHANGED pendingCurveIndex
       ELSE pendingCurveIndex' = None /\ UNCHANGED pendingValue
    /\ UNCHANGED <<scope, env, visible, hostSettings, currentSettings, activeIntervals,
                   modeSelectionActive, pendingMode, errorVars, pendingJsonPath,
                   pendingFanNick, pendingFanExe, pendingBypassUac,
                   selectModeTimeoutTimer, lastVars, inflight>>

executePendingWrite(t) ==
    /\ t \in timers
    /\ t.kind = "debounce"
    /\ timers' = timers \ {t}
    /\ pendingValueTimer' = None
    /\ file' = FlushResult.file
    /\ fx' = FlushResult.fx
    /\ IF pendingJsonPath = Null \/ pendingFanNick = Null
       THEN UNCHANGED <<pendingValue, pendingCurveIndex>>
       ELSE IF pendingValue # None
       THEN pendingValue' = None /\ UNCHANGED pendingCurveIndex
       ELSE pendingCurveIndex' = None /\ UNCHANGED pendingValue
    /\ UNCHANGED <<scope, env, visible, hostSettings, currentSettings, activeIntervals,
                   modeSelectionActive, pendingMode, errorVars, pendingJsonPath,
                   pendingFanNick, pendingFanExe, pendingBypassUac,
                   selectModeTimeoutTimer, lastVars, inflight>>

\* The timeout's callback without its reset of modeSelectionActive
selectModeTimeoutKeepsSelecting(t) ==
    /\ t \in timers
    /\ t.kind = "select"
    /\ timers' = timers \ {t}
    /\ IF currentSettings[t.ctx] # None
       THEN LET r == updateDisplayFromState(file, Get(currentSettings[t.ctx]),
                         FALSE, modeSelectionActive, pendingMode,
                         isTaskMissing, isVbsMissing)
            IN  fx' = Effects("selectModeTimeout", "none", "none", FALSE, Some(r.payload))
       ELSE fx' = Effects("selectModeTimeout", "none", "none", FALSE, None)
    /\ UNCHANGED <<hostVars, hostSettings, currentSettings, activeIntervals,
                   session, inflight>>

\* The mode-selection timeout t fires
selectModeTimeout(t) ==
    /\ t \in timers
    /\ t.kind = "select"
    /\ timers' = timers \ {t}
    /\ modeSelectionActive' = FALSE
    /\ IF currentSettings[t.ctx] # None
       THEN LET r == updateDisplayFromState(file, Get(currentSettings[t.ctx]),
                         FALSE, FALSE, pendingMode, isTaskMissing, isVbsMissing)
            IN  fx' = Effects("selectModeTimeout", "none", "none", FALSE, Some(r.payload))
       ELSE fx' = Effects("selectModeTimeout", "none", "none", FALSE, None)
    /\ UNCHANGED <<hostVars, hostSettings, currentSettings, activeIntervals,
                   pendingMode, errorVars, pendingVars, selectModeTimeoutTimer,
                   lastVars, inflight>>

\* The poll's returns without those for a buffered edit
PollSuppressedSelectingOnly(ctx) ==
    \/ modeSelectionActive
    \/ currentSettings[ctx] = None
    \/ Get(currentSettings[ctx]).jsonFile = Null
    \/ Get(currentSettings[ctx]).fanNick = Null

\* Whether a tick of the poll interval returns before it refreshes
PollSuppressed(ctx) ==
    \/ modeSelectionActive
    \/ pendingValue # None
    \/ pendingCurveIndex # None
    \/ currentSettings[ctx] = None
    \/ Get(currentSettings[ctx]).jsonFile = Null
    \/ Get(currentSettings[ctx]).fanNick = Null

\* A tick of the poll interval t
pollTick(t) ==
    /\ t \in timers
    /\ t.kind = "poll"
    /\ IF PollSuppressed(t.ctx)
       THEN /\ fx' = Effects("pollTick", "none", "none", FALSE, None)
            /\ UNCHANGED <<hostSettings, currentSettings>>
       ELSE LET r == updateDisplayFromState(file, Get(currentSettings[t.ctx]),
                         TRUE, modeSelectionActive, pendingMode,
                         isTaskMissing, isVbsMissing)
            IN  /\ Store(t.ctx, r, hostSettings, currentSettings)
                /\ fx' = Effects("pollTick", "none", "none", FALSE, Some(r.payload))
    /\ UNCHANGED <<hostVars, activeIntervals, session, timers, inflight>>

\* ---------------------------------------------------------- the environment

\* FanControl or the user replaces, removes or damages the file.  No handler
\* runs: the payload the last handler sent is still what the dial shows
externalWrite(f) ==
    /\ ScopeOf(scope).rewrites
    /\ f # file
    /\ file' = f
    /\ fx' = Effects("externalWrite", "none", "none", FALSE, fx.shown)
    /\ UNCHANGED <<scope, env, visible, hostSettings, currentSettings,
                   activeIntervals, session, timers, inflight>>

\* ------------------------------------------------------- the specification

Next ==
    \/ \E i \in Dials : onWillAppear(i)
    \/ \E i \in Dials : onWillDisappear(i)
    \/ \E i \in Dials : onPropertyInspectorDidAppear(i)
    \/ \E i \in Dials : \E c \in InspectorSettings(scope, i) : onDidReceiveSettings(i, c)
    \/ \E c \in inflight : UacChecksThenDisplay(c)
    \/ \E c \in inflight : UacChecksThenSettings(c)
    \/ \E i \in Dials : onDialDown(i)
    \/ \E i \in Dials, ticks \in ScopeOf(scope).ticks : onDialRotate(i, ticks)
    \/ \E t \in timers : executePendingWrite(t)
    \/ \E t \in timers : selectModeTimeout(t)
    \/ \E t \in timers : pollTick(t)
    \/ \E f \in ScopeOf(scope).files : externalWrite(f)

Spec == Init /\ [][Next]_vars

\* The runs of the "live" scope in which an armed timeout (setTimeout of
\* 1200 ms, of 3000 ms) that is not cleared fires
LiveInit == InitIn({"live"})

LiveSpec ==
    /\ LiveInit
    /\ [][Next]_vars
    /\ WF_vars(\E t \in timers : executePendingWrite(t))
    /\ WF_vars(\E t \in timers : selectModeTimeout(t))

\* ------------------------------------------- the file functions on their own

\* The values a caller passes to setManualValueInJson: the ends of the range,
\* values inside it, a fraction, and values outside it
JsonValues ==
    {Num(MinValue), Num(1), Num(42), Fraction(42, 1), Num(MaxValue),
     Num(MinValue - 1), Num(MaxValue + 1)}

JsonCurveNames == {AllCurveNames[k] : k \in 1..MaxCurves}

\* A file whose entry for the fan has the given fields, among a hidden entry
\* of the same nickname, another fan's entry, a hidden curve and n listed ones
MkJsonFile(enable, manual, value, sel, n) ==
    [MkFile("AUTO", value, sel, n) EXCEPT !.Controls[2].Enable = enable,
                                          !.Controls[2].ManualControl = manual]

JsonFlags == {None, Some(FALSE), Some(TRUE)}

JsonFiles ==
    {MkJsonFile(e, m, v, sel, n) :
        e \in JsonFlags, m \in JsonFlags,
        v \in {None, NonNumeric, Some(Num(42)), Some(Fraction(7, 1))},
        sel \in {None, Some(CurveRef("", Some("id"))), SelectedCurve(2),
                 Some(CurveRef("gone", Some("id")))},
        n \in 0..MaxCurves}

\* What the last call did: the function, its argument, the file before the
\* call and the function's result
Called(op, arg, before, result) ==
    [ev |-> op, arg |-> arg, before |-> before, result |-> result]

jsonFrame == <<scope, env, hostSettings, visible, currentSettings, activeIntervals,
               session, timers, inflight>>

JsonInit ==
    /\ scope = "json"
    /\ file \in JsonFiles
    /\ env = HostEnv(TRUE, TRUE, TRUE)
    /\ hostSettings = [i \in Dials |-> Settings(Null, Null, Null, Null, FALSE)]
    /\ visible = {}
    /\ currentSettings = [i \in Dials |-> None]
    /\ activeIntervals = [i \in Dials |-> None]
    /\ modeSelectionActive = FALSE
    /\ pendingMode = "AUTO"
    /\ isTaskMissing = FALSE
    /\ isVbsMissing = FALSE
    /\ pendingValueTimer = None
    /\ pendingValue = None
    /\ pendingCurveIndex = None
    /\ pendingJsonPath = Null
    /\ pendingFanNick = Null
    /\ pendingFanExe = Null
    /\ pendingBypassUac = FALSE
    /\ selectModeTimeoutTimer = None
    /\ lastFanNick = Null
    /\ lastJsonPath = Null
    /\ timers = {}
    /\ inflight = {}
    /\ fx = Called("init", None, file, None)

CallSetManualValue(value) ==
    LET r == setManualValueInJson(file, CfgPath, FanNick, value)
    IN  /\ file' = r.file
        /\ fx' = Called("setManualValueInJson", value, file, r.result)
        /\ UNCHANGED jsonFrame

CallSetFanMode(targetMode) ==
    LET r == setFanModeInJson(file, CfgPath, FanNick, targetMode)
    IN  /\ file' = r.file
        /\ fx' = Called("setFanModeInJson", targetMode, file, r.result)
        /\ UNCHANGED jsonFrame

CallSetSoftwareCurve(curveName) ==
    LET r == setSoftwareCurveInJson(file, CfgPath, FanNick, curveName)
    IN  /\ file' = r.file
        /\ fx' = Called("setSoftwareCurveInJson", curveName, file, r.result)
        /\ UNCHANGED jsonFrame

JsonNext ==
    \/ \E value \in JsonValues : CallSetManualValue(value)
    \/ \E targetMode \in ControlModes : CallSetFanMode(targetMode)
    \/ \E curveName \in JsonCurveNames : CallSetSoftwareCurve(curveName)

JsonSpec == JsonInit /\ [][JsonNext]_vars

\* ============================================================== properties

DebounceTimers == {t \in timers : t.kind = "debounce"}
SelectTimers == {t \in timers : t.kind = "select"}

\* Whether the file f has the entry a read of (jsonPath, fanNick) finds, and
\* that entry
HasEntry(f, jsonPath, fanNick) == readFanStateFromJson(f, jsonPath, fanNick) # None
Entry(f, fanNick) == f.Controls[FindControl(f.Controls, fanNick)]

NoErrorLatched == ~isTaskMissing /\ ~isVbsMissing

\* ---------------------------------------------------------------------- C1

\* C1: a burst of rotations ends in exactly one write and one launch, of the
\* last buffered value.  While a value is buffered exactly one debounce timer
\* is armed; a rotation itself writes and launches nothing; only a rotation
\* puts a value into the buffer; only the flush writes a manual value; and
\* the flush of a buffered value v whose file and entry are present writes v
\* to the entry with setManualValueInJson, calls launchFanControlConfig once
\* (which spawns the executable when it is present and bypass is off), and
\* leaves no buffered value and no armed debounce timer behind.
C1_OneWritePerBurst ==
    [][ /\ pendingValue # None => Cardinality(DebounceTimers) = 1
        /\ fx'.ev = "onDialRotate"
              => fx'.write = "none" /\ fx'.launch = "none" /\ file' = file
        /\ pendingValue' # pendingValue /\ pendingValue' # None
              => fx'.ev = "onDialRotate"
        /\ fx'.write = "manual"
              => fx'.ev = "executePendingWrite" /\ pendingValue # None
        /\ ( /\ fx'.ev = "executePendingWrite"
             /\ pendingValue # None
             /\ HasEntry(file, pendingJsonPath, pendingFanNick) )
              => /\ fx'.write = "manual"
                 /\ fx'.launch # "none"
                 /\ (pendingFanExe # Null /\ env.exe /\ ~pendingBypassUac
                        => fx'.launch = "exe")
                 /\ Entry(file', pendingFanNick).ManualControlValue = pendingValue
                 /\ pendingValue' = None
                 /\ DebounceTimers' = {}
      ]_vars

\* C1 witness: the flush after a burst wrote a buffered value other than the
\* file's first one and spawned the executable; nothing is buffered any more
C1_Witness ==
    /\ scope = "step"
    /\ fx.ev = "executePendingWrite"
    /\ fx.from = "editing"
    /\ fx.write = "manual"
    /\ fx.launch = "exe"
    /\ Entry(file, FanNick).ManualControlValue = Some(Num(20))
    /\ pendingValue = None
    /\ DebounceTimers = {}

\* ---------------------------------------------------------------------- C2

\* C2: at most one debounce timer is armed, and an armed debounce timer is
\* the one pendingValueTimer names: a timer a later rotation superseded is
\* not armed any more, so its callback cannot run
C2_OneDebounceTimer ==
    /\ Cardinality(DebounceTimers) <= 1
    /\ \A t \in DebounceTimers : pendingValueTimer = Some(t.id)
    /\ pendingValueTimer # None => \E t \in DebounceTimers : t.id = Get(pendingValueTimer)

\* C2 witness: two rotations of +5 in one burst (the file still holds 10 and
\* nobody else writes it), one timer armed
C2_Witness ==
    /\ scope = "step"
    /\ fx.ev = "onDialRotate"
    /\ fx.from = "editing"
    /\ pendingValue = Some(Num(20))
    /\ Entry(file, FanNick).ManualControlValue = Some(Num(10))
    /\ Cardinality(DebounceTimers) = 1

\* ---------------------------------------------------------------------- C3

\* The mode a read of dial i's file and fan gives, "" when the read gives nothing
FileMode(i) ==
    LET state == readFanStateFromJson(file, hostSettings[i].jsonFile,
                                      hostSettings[i].fanNick)
    IN  IF state = None THEN "" ELSE Get(state).mode

\* C3: with mode selection inactive and the file's mode AUTO, a rotation by
\* any non-zero tick count changes nothing: no timer is armed, nothing is
\* buffered, the file is not written, nothing is launched and no payload is sent
C3_AutoRotateNoOp ==
    [][ \A i \in Dials, ticks \in ScopeOf(scope).ticks :
          ( /\ ticks # 0
            /\ ~modeSelectionActive
            /\ FileMode(i) = "AUTO"
            /\ onDialRotate(i, ticks) )
          => /\ UNCHANGED <<file, timers, session, hostSettings, currentSettings>>
             /\ fx'.write = "none"
             /\ fx'.launch = "none"
             /\ ~fx'.alert
             /\ fx'.shown = None
      ]_vars

\* C3 witness: a rotation of +5 or -5 on an idle dial whose file says AUTO
\* (no error latched, the entry present) left nothing buffered and sent nothing
C3_Witness ==
    /\ scope = "step"
    /\ fx.ev = "onDialRotate"
    /\ fx.from = "idle"
    /\ NoErrorLatched
    /\ \E i \in visible : FileMode(i) = "AUTO"
    /\ fx.shown = None
    /\ pendingValue = None
    /\ pendingCurveIndex = None
    /\ DebounceTimers = {}

\* ---------------------------------------------------------------------- C4

\* C4: a tick of the poll while a mode is being selected or an edit is
\* buffered sends no payload and changes neither the stored settings nor the
\* session; and the payload a rotation sends when it buffers a value shows
\* that value, so the display still shows the buffered value after the tick
C4_PollSuppressed ==
    [][ /\ ( /\ fx'.ev = "pollTick"
             /\ (modeSelectionActive \/ pendingValue # None
                    \/ pendingCurveIndex # None) )
              => /\ fx'.shown = None
                 /\ UNCHANGED <<hostSettings, currentSettings, session, file, timers>>
        /\ (fx'.ev = "onDialRotate" /\ pendingValue' # None /\ fx'.shown # None)
              => Get(fx'.shown).pct = Get(pendingValue')
        /\ (pendingValue' # pendingValue /\ pendingValue' # None)
              => fx'.shown # None
      ]_vars

\* C4 witness: the poll ticked while a value other than the file's was
\* buffered, and sent nothing
C4_Witness ==
    /\ fx.ev = "pollTick"
    /\ fx.from = "editing"
    /\ fx.shown = None
    /\ pendingValue # None
    /\ HasEntry(file, pendingJsonPath, pendingFanNick)
    /\ Entry(file, pendingFanNick).ManualControlValue # pendingValue
    /\ \E i \in visible : currentSettings[i] # None

\* ---------------------------------------------------------------------- C5

\* C5: a push while an edit is buffered and no error is latched starts mode
\* selection and abandons the edit: the debounce timer is cancelled, the
\* buffered value, curve index and write target are cleared and the push
\* writes nothing; and since a value or a curve is only ever written by the
\* flush of what is buffered at that moment, the abandoned edit is not
\* written later either
C5_PushAbandonsEdit ==
    [][ /\ ( /\ fx'.ev = "onDialDown"
             /\ (pendingValue # None \/ pendingCurveIndex # None)
             /\ NoErrorLatched )
              => /\ modeSelectionActive'
                 /\ DebounceTimers' = {}
                 /\ pendingValueTimer' = None
                 /\ pendingValue' = None
                 /\ pendingCurveIndex' = None
                 /\ pendingJsonPath' = Null
                 /\ pendingFanNick' = Null
                 /\ pendingFanExe' = Null
                 /\ file' = file
                 /\ fx'.write = "none"
                 /\ fx'.launch = "none"
        /\ fx'.write \in {"manual", "curve"}
              => /\ fx'.ev = "executePendingWrite"
                 /\ fx'.from = "editing"
                 /\ fx'.write = "manual" => pendingValue # None
                 /\ fx'.write = "curve" => pendingCurveIndex # None
      ]_vars

\* C5 witness: a push that found an edit buffered; the selection is on and
\* neither the edit nor its timer is left
C5_Witness ==
    /\ fx.ev = "onDialDown"
    /\ fx.from = "editing"
    /\ modeSelectionActive
    /\ pendingValue = None
    /\ pendingCurveIndex = None
    /\ pendingJsonPath = Null
    /\ DebounceTimers = {}

\* ---------------------------------------------------------------------- C6

\* C6: when the mode-selection timeout fires the selection is over and the
\* callback writes and launches nothing; if it ends a selection of a dial
\* whose settings are stored, with no error latched, it sends the normal
\* panel (not the selection panel), with the mode of the file's entry when
\* there is one; and while a mode is being selected no timer writes the file
\* or launches anything (no debounce timer is even armed)
C6_TimeoutReverts ==
    [][ /\ fx'.ev = "selectModeTimeout"
              => /\ ~modeSelectionActive'
                 /\ file' = file
                 /\ fx'.write = "none"
                 /\ fx'.launch = "none"
                 /\ UNCHANGED <<hostSettings, currentSettings, pendingVars>>
        /\ \A t \in SelectTimers :
              ( /\ selectModeTimeout(t)
                /\ modeSelectionActive
                /\ NoErrorLatched
                /\ currentSettings[t.ctx] # None )
              => /\ fx'.shown # None
                 /\ ~Get(fx'.shown).select
                 /\ Get(fx'.shown).banner = "NONE"
                 /\ FileMode(t.ctx) # ""
                      => Get(fx'.shown).modeLabel =
                            (IF FileMode(t.ctx) = "SOFT" THEN "CURVE"
                             ELSE FileMode(t.ctx))
        /\ modeSelectionActive => DebounceTimers = {}
        /\ ( /\ modeSelectionActive
             /\ fx'.ev \in {"selectModeTimeout", "pollTick", "executePendingWrite"} )
              => file' = file /\ fx'.write = "none" /\ fx'.launch = "none"
      ]_vars

\* C6 witness: the timeout ended a selection whose candidate (AUTO) was not
\* the file's mode (MAN); the normal panel with the file's mode is shown
C6_Witness ==
    /\ fx.ev = "selectModeTimeout"
    /\ fx.from = "selecting"
    /\ ~modeSelectionActive
    /\ pendingMode = "AUTO"
    /\ \E i \in visible : FileMode(i) = "MAN"
    /\ fx.shown # None
    /\ Get(fx.shown).modeLabel = "MAN"
    /\ ~Get(fx.shown).select

\* ---------------------------------------------------------------------- C7

\* The file lists no curve that is not hidden
ZeroCurves == file.kind = "json" /\ AvailableCurves(file.FanCurves) = <<>>

\* What C7 promises of a push
C7_Rejected ==
    /\ file' = file
    /\ fx'.write = "none"
    /\ fx'.launch = "none"
    /\ fx'.alert
    /\ ~modeSelectionActive'
    /\ hostSettings' = hostSettings
    /\ currentSettings' = currentSettings

\* C7 as stated: every push during mode selection with candidate SOFT and no
\* listed curve leaves the file alone, launches nothing, alerts and ends the
\* selection with the stored settings unchanged
C7_Original ==
    [][ \A i \in Dials :
          (onDialDown(i) /\ modeSelectionActive /\ pendingMode = "SOFT" /\ ZeroCurves)
          => C7_Rejected
      ]_vars

\* C7: a push during mode selection with candidate SOFT and no listed curve,
\* no error latched, leaves the file alone, launches nothing, alerts and ends
\* the selection with the stored settings unchanged, whatever the current
\* mode; with an error latched the push alerts and changes nothing, so the
\* selection stays on
C7_ConfirmWithoutCurves ==
    [][ \A i \in Dials :
          (onDialDown(i) /\ modeSelectionActive /\ pendingMode = "SOFT" /\ ZeroCurves)
          => IF NoErrorLatched
             THEN C7_Rejected
             ELSE /\ fx'.alert
                  /\ fx'.write = "none"
                  /\ fx'.launch = "none"
                  /\ UNCHANGED <<file, hostSettings, currentSettings, session, timers>>
      ]_vars

\* C7 witness: the rejected confirm of SOFT on a dial whose stored mode is
\* SOFT already and whose file lists no curve
C7_Witness ==
    /\ fx.ev = "onDialDown"
    /\ fx.from = "selecting"
    /\ NoErrorLatched
    /\ pendingMode = "SOFT"
    /\ ZeroCurves
    /\ fx.alert
    /\ fx.write = "none"
    /\ ~modeSelectionActive
    /\ \E i \in visible : hostSettings[i].mode = "SOFT"

\* ---------------------------------------------------------------------- C8

InRange(v) == Num(MinValue) <= v /\ v <= Num(MaxValue)

\* Base values and tick counts far outside 0..100, fractions included
C8_Bases == {Fraction(n, k) : n \in -120..220, k \in 0..(Scale - 1)}
C8_Ticks == -210..210

C8_Computed ==
    /\ \A b \in C8_Bases, t \in C8_Ticks : InRange(NewManualValue(b, t))
    /\ \A b \in C8_Bases : InRange(ClampWrite(b))

\* The value the last flush wrote
WrittenValue == Get(Entry(file, pendingFanNick).ManualControlValue)

C9_Clamp(x) ==
    IF x <= Num(MinValue) THEN Num(MinValue)
    ELSE IF x >= Num(MaxValue) THEN Num(MaxValue) ELSE x

\* +5 three times from a file value of 10, then the write of the flush
C9_Scenario ==
    LET f0 == MkFile("MAN", Some(Num(10)), None, 0)
        v1 == NewManualValue(Get(readFanStateFromJson(f0, CfgPath, FanNick)).value, 5)
        v2 == NewManualValue(v1, 5)
        v3 == NewManualValue(v2, 5)
        w == setManualValueInJson(f0, CfgPath, FanNick, v3)
    IN  /\ v3 = Num(25)
        /\ Entry(w.file, FanNick).ManualControlValue = Some(Num(25))
        /\ Get(readFanStateFromJson(w.file, CfgPath, FanNick)).value = Num(25)

\* C9: in MAN mode (selection off, no error latched) a rotation by a
\* non-zero tick count t buffers clamp(base + t, 0, 100), base being the
\* buffered value if there is one and the file's value otherwise, and arms the
\* one debounce timer; +5 three times from 10 buffers 25, which the flush writes
C9_BufferedValue ==
    [][ /\ \A i \in Dials, ticks \in ScopeOf(scope).ticks :
              ( /\ fx'.ev = "onDialRotate"
                /\ ticks # 0
                /\ NoErrorLatched
                /\ ~modeSelectionActive
                /\ FileMode(i) = "MAN"
                /\ onDialRotate(i, ticks) )
              => LET fromFile == Get(readFanStateFromJson(file,
                                        hostSettings[i].jsonFile,
                                        hostSettings[i].fanNick)).value
                     base == IF pendingValue # None THEN Get(pendingValue)
                             ELSE fromFile
                 IN  /\ pendingValue' = Some(C9_Clamp(base + Num(ticks)))
                     /\ Cardinality(DebounceTimers') = 1
                     /\ file' = file
        /\ C9_Scenario
      ]_vars

\* C9 witness: the flush wrote 25 where the file started with 10 and every
\* rotation was one of +5 or -5
C9_Witness ==
    /\ scope = "step"
    /\ fx.ev = "executePendingWrite"
    /\ fx.write = "manual"
    /\ fx.launch = "exe"
    /\ Entry(file, FanNick).ManualControlValue = Some(Num(25))
    /\ FileMode("A") = "MAN"

\* --------------------------------------------------------------------- C10

C10_Forward(m) == cyclePendingMode(m, 1)
C10_Backward(m) == cyclePendingMode(m, -1)

C10_Cycle ==
    /\ C10_Forward("AUTO") = "MAN"
    /\ C10_Forward("MAN") = "SOFT"
    /\ C10_Forward("SOFT") = "AUTO"
    /\ C10_Backward("AUTO") = "SOFT"
    /\ C10_Backward("SOFT") = "MAN"
    /\ C10_Backward("MAN") = "AUTO"
    /\ \A m \in ControlModes :
          /\ C10_Forward(C10_Forward(C10_Forward(m))) = m
          /\ C10_Backward(C10_Forward(m)) = m

\* The mode after m in AUTO -> MAN -> SOFT -> AUTO, and the one before it
C10_After(m) == IF m = "AUTO" THEN "MAN" ELSE IF m = "MAN" THEN "SOFT" ELSE "AUTO"
C10_Before(m) == IF m = "AUTO" THEN "SOFT" ELSE IF m = "MAN" THEN "AUTO" ELSE "MAN"

\* C10: a rotation during mode selection moves the candidate one place along
\* AUTO -> MAN -> SOFT -> AUTO when it is forward and one place the other way
\* when it is backward, and the selection stays on; three forward steps, and
\* a forward step followed by a backward one, give back the starting candidate
C10_ModeCycle ==
    [][ /\ \A i \in Dials, ticks \in ScopeOf(scope).ticks :
              ( /\ ticks # 0
                /\ NoErrorLatched
                /\ modeSelectionActive
                /\ onDialRotate(i, ticks) )
              => /\ pendingMode' = IF ticks > 0 THEN C10_After(pendingMode)
                                   ELSE C10_Before(pendingMode)
                 /\ modeSelectionActive'
                 /\ pendingMode' \in ControlModes
        /\ C10_Cycle
      ]_vars

\* C10 witness: a rotation during the selection on a dial whose mode is SOFT
\* made AUTO the candidate
C10_Witness ==
    /\ fx.ev = "onDialRotate"
    /\ fx.from = "selecting"
    /\ modeSelectionActive
    /\ NoErrorLatched
    /\ pendingMode = "AUTO"
    /\ \E i \in visible : hostSettings[i].mode = "SOFT"
    /\ fx.shown # None
    /\ Get(fx.shown).text = "AUTO"
    /\ Get(fx.shown).select

\* --------------------------------------------------------------------- C11

\* The mode a read of file f gives for the fan of settings st, "" when the
\* read gives nothing
ModeIn(f, st) ==
    LET state == readFanStateFromJson(f, st.jsonFile, st.fanNick)
    IN  IF state = None THEN "" ELSE Get(state).mode

\* A confirm push on dial i that C11 speaks of: the selection is on, no error
\* is latched, the entry is in the file and the candidate can be chosen
C11_ValidConfirm(i) ==
    /\ modeSelectionActive
    /\ NoErrorLatched
    /\ FileMode(i) # ""
    /\ pendingMode = "SOFT" => ~ZeroCurves

\* C11 as stated: a valid confirm whose candidate is not the mode the file
\* holds writes the candidate (a read gives it back), launches once and ends
\* the selection; one whose candidate is the file's mode writes and launches
\* nothing
C11_Original ==
    [][ \A i \in Dials :
          (onDialDown(i) /\ C11_ValidConfirm(i))
          => /\ ~modeSelectionActive'
             /\ IF pendingMode # FileMode(i)
                THEN /\ fx'.write = "mode"
                     /\ ModeIn(file', hostSettings[i]) = pendingMode
                     /\ fx'.launch # "none"
                ELSE /\ file' = file
                     /\ fx'.write = "none"
                     /\ fx'.launch = "none"
      ]_vars

\* What the code does: the same with the mode stored in the settings in the
\* place of the file's mode
C11_BySettingsMode ==
    [][ \A i \in Dials :
          (onDialDown(i) /\ C11_ValidConfirm(i))
          => /\ ~modeSelectionActive'
             /\ IF pendingMode # ModeOrAuto(hostSettings[i].mode)
                THEN /\ fx'.write = "mode"
                     /\ ModeIn(file', hostSettings[i]) = pendingMode
                     /\ fx'.launch # "none"
                     /\ hostSettings'[i].mode = pendingMode
                ELSE /\ file' = file
                     /\ fx'.write = "none"
                     /\ fx'.launch = "none"
      ]_vars

\* --------------------------------------------------------------------- C12

\* C12 as stated: no handler writes the file (a mode, a value or a curve)
\* while isTaskMissing or isVbsMissing is set, the flush of an edit buffered
\* before the flag was set included
C12_Original ==
    [][ fx'.write # "none" => NoErrorLatched ]_vars

\* What the code does: the pushes and rotations are blocked, so a mode is
\* never written while an error is latched; only the flush writes then
C12_OnlyFlushWrites ==
    [][ (fx'.write # "none" /\ ~NoErrorLatched)
          => fx'.ev = "executePendingWrite" /\ fx'.write \in {"manual", "curve"}
      ]_vars

\* --------------------------------------------------------------------- C13

\* C13: while isTaskMissing or isVbsMissing is set a push only calls
\* showAlert and a rotation does nothing: neither changes the selection flag,
\* the candidate, the buffered edit, a timer, the stored settings or the file,
\* and neither sends a payload or launches anything
C13_BlockedWhileLatched ==
    [][ /\ \A i \in Dials :
              (~NoErrorLatched /\ onDialDown(i))
              => /\ fx'.alert
                 /\ fx'.shown = None
                 /\ fx'.write = "none"
                 /\ fx'.launch = "none"
                 /\ UNCHANGED <<session, timers, hostSettings, currentSettings,
                                file, inflight>>
        /\ \A i \in Dials, ticks \in ScopeOf(scope).ticks :
              (~NoErrorLatched /\ onDialRotate(i, ticks))
              => /\ ~fx'.alert
                 /\ fx'.shown = None
                 /\ fx'.write = "none"
                 /\ fx'.launch = "none"
                 /\ UNCHANGED <<session, timers, hostSettings, currentSettings,
                                file, inflight>>
      ]_vars

\* C13 witness: a push with the error latched while an edit was buffered
\* alerted, and the edit and its timer are still there
C13_Witness ==
    /\ fx.ev = "onDialDown"
    /\ fx.from = "editing"
    /\ fx.alert
    /\ isTaskMissing \/ isVbsMissing
    /\ ~modeSelectionActive
    /\ pendingValue # None
    /\ Cardinality(DebounceTimers) = 1

\* --------------------------------------------------------------------- C14

\* The armed timers dial i's handlers started
TimersOf(i) == {t \in timers : t.ctx = i}

\* Two visible dials set up for different fans
C14_Pair(a, b) ==
    /\ a # b
    /\ {a, b} \subseteq visible
    /\ hostSettings[a].fanNick # hostSettings[b].fanNick

\* What the session holds is b's: a has no debounce or selection timer armed,
\* and a buffered edit or a running selection has b's timer behind it
C14_Holds(a, b) ==
    /\ TimersOf(a) \cap (DebounceTimers \cup SelectTimers) = {}
    /\ (pendingValue # None \/ pendingCurveIndex # None)
          => TimersOf(b) \cap DebounceTimers # {}
    /\ modeSelectionActive => TimersOf(b) \cap SelectTimers # {}

\* An event of dial a: push, rotate, appear, settings change, or one of its
\* timers firing
C14_EventOf(a) ==
    \/ onDialDown(a)
    \/ \E ticks \in ScopeOf(scope).ticks : onDialRotate(a, ticks)
    \/ onWillAppear(a)
    \/ \E c \in InspectorSettings(scope, a) : onDidReceiveSettings(a, c)
    \/ \E t \in TimersOf(a) :
          executePendingWrite(t) \/ selectModeTimeout(t) \/ pollTick(t)

\* The part of the session the claim names, with b's timers
C14_SessionOf(b) ==
    <<modeSelectionActive, pendingMode, pendingValue, pendingCurveIndex,
      pendingValueTimer, selectModeTimeoutTimer, isTaskMissing, isVbsMissing,
      TimersOf(b) \cap (DebounceTimers \cup SelectTimers)>>

\* C14: with two visible dials a and b set up for different fans, no event of
\* a changes b's mode-selection flag, candidate mode, buffered value or curve
\* index, debounce timer, mode-selection timeout or error latch.
C14_Original ==
    [][ \A a \in Dials, b \in Dials :
          (C14_Pair(a, b) /\ C14_Holds(a, b) /\ C14_EventOf(a))
             => UNCHANGED C14_SessionOf(b) ]_vars

\* --------------------------------------------------------------------- C15

\* The state a read of the fan's entry in file f gives
ReadBack(f) == readFanStateFromJson(f, CfgPath, FanNick)

\* C15: for every file with a non-hidden entry of the nickname and every v
\* within 0..100, setManualValueInJson(v) followed by readFanStateFromJson
\* gives mode MAN and value v, whatever the entry's flags, its other fields
\* and the other entries were.
C15_RoundTrip ==
    [][ \A v \in JsonValues :
          (CallSetManualValue(v) /\ InRange(v) /\ ReadBack(file) # None)
             => /\ ReadBack(file') # None
                /\ Get(ReadBack(file')).mode = "MAN"
                /\ Get(ReadBack(file')).value = v
                /\ fx'.result = Some(FanState("MAN", v, "", <<>>)) ]_vars

\* A value written over an entry in automatic mode that held no number
C15_Witness ==
    /\ fx.ev = "setManualValueInJson"
    /\ fx.arg = Num(42)
    /\ Entry(fx.before, FanNick).Enable = Some(FALSE)
    /\ Entry(fx.before, FanNick).ManualControlValue = NonNumeric
    /\ Get(ReadBack(file)).mode = "MAN"
    /\ Get(ReadBack(file)).value = Num(42)

\* --------------------------------------------------------------------- C16

\* C16: readFanStateFromJson derives the mode from the entry's two flags
\* only: Enable = false gives AUTO, Enable = true with ManualControl = true
\* gives MAN, Enable = true with ManualControl = false gives SOFT; the value
\* is 0 when ManualControlValue is absent or not a number, and the curve name
\* is "Unknown" when no curve is selected.
C16_ReadDerivation ==
    LET ctrl == Entry(file, FanNick)
        st == Get(ReadBack(file))
    IN  /\ ReadBack(file) # None
        /\ ctrl.Enable = Some(FALSE) => st.mode = "AUTO"
        /\ (ctrl.Enable = Some(TRUE) /\ ctrl.ManualControl = Some(TRUE))
              => st.mode = "MAN"
        /\ (ctrl.Enable = Some(TRUE) /\ ctrl.ManualControl = Some(FALSE))
              => st.mode = "SOFT"
        /\ \A g \in JsonFiles :
              (/\ Entry(g, FanNick).Enable = ctrl.Enable
               /\ Entry(g, FanNick).ManualControl = ctrl.ManualControl)
                 => Get(ReadBack(g)).mode = st.mode
        /\ (ctrl.ManualControlValue = None \/ ctrl.ManualControlValue = NonNumeric)
              => st.value = Num(0)
        /\ ctrl.SelectedFanCurve = None => st.curveName = "Unknown"

\* An entry with Enable = false and ManualControl = true, no number and no
\* curve, read as AUTO, 0, "Unknown", and read as SOFT once given a curve
C16_Witness ==
    /\ fx.ev = "setSoftwareCurveInJson"
    /\ Entry(fx.before, FanNick).Enable = Some(FALSE)
    /\ Entry(fx.before, FanNick).ManualControl = Some(TRUE)
    /\ Entry(fx.before, FanNick).ManualControlValue = NonNumeric
    /\ Entry(fx.before, FanNick).SelectedFanCurve = None
    /\ Get(ReadBack(fx.before)).mode = "AUTO"
    /\ Get(ReadBack(fx.before)).value = Num(0)
    /\ Get(ReadBack(fx.before)).curveName = "Unknown"
    /\ Entry(file, FanNick).ManualControl = Some(FALSE)
    /\ Get(ReadBack(file)).mode = "SOFT"

\* --------------------------------------------------------------------- C17

\* File f with the two flags of the fan's entry blanked
WithoutFlags(f) ==
    [f EXCEPT !.Controls[FindControl(f.Controls, FanNick)].Enable = None,
              !.Controls[FindControl(f.Controls, FanNick)].ManualControl = None]

\* C17: setFanModeInJson with target MAN or AUTO changes only the Enable and
\* ManualControl flags of the matching entry, leaving ManualControlValue and
\* SelectedFanCurve as they were; so a set-mode AUTO or SOFT followed by a
\* set-mode MAN reads back as MAN with the value read before the two calls.
C17_FlagsOnly ==
    [][ /\ \A m \in {"MAN", "AUTO"} :
             CallSetFanMode(m)
                => /\ WithoutFlags(file') = WithoutFlags(file)
                   /\ Entry(file', FanNick).ManualControlValue
                         = Entry(file, FanNick).ManualControlValue
                   /\ Entry(file', FanNick).SelectedFanCurve
                         = Entry(file, FanNick).SelectedFanCurve
                   /\ Get(ReadBack(file')).mode = m
        /\ (/\ fx.ev = "setFanModeInJson"
            /\ fx.arg \in {"AUTO", "SOFT"}
            /\ CallSetFanMode("MAN"))
              => /\ Get(ReadBack(file')).mode = "MAN"
                 /\ Get(ReadBack(file')).value = Get(ReadBack(fx.before)).value
                 /\ Get(fx'.result).value = Get(ReadBack(fx.before)).value ]_vars

\* Back to manual mode from a curve, the value 42 the entry held still there
C17_Witness ==
    /\ fx.ev = "setFanModeInJson"
    /\ fx.arg = "MAN"
    /\ Get(ReadBack(fx.before)).mode = "SOFT"
    /\ Entry(fx.before, FanNick).ManualControlValue = Some(Num(42))
    /\ Entry(fx.before, FanNick).SelectedFanCurve = SelectedCurve(2)
    /\ file # fx.before
    /\ ReadBack(file) = Some(FanState("MAN", Num(42), "c2", AvailableCurves(file.FanCurves)))

\* --------------------------------------------------------------------- C18

\* The positions of the curves of f that have a name and are not hidden
ListedCurves(f) ==
    {k \in 1..Len(f.FanCurves) : f.FanCurves[k].Name # "" /\ ~f.FanCurves[k].IsHidden}

FirstListedCurve(f) ==
    f.FanCurves[CHOOSE k \in ListedCurves(f) : \A j \in ListedCurves(f) : k <= j].Name

\* C18: setFanModeInJson with target SOFT on a file with at least one
\* available curve: an entry without a selected curve gets the first
\* non-hidden curve of the file's list, an entry with a selected curve name
\* keeps its selection.
C18_SoftSelection ==
    [][ (CallSetFanMode("SOFT") /\ ListedCurves(file) # {})
           => /\ Get(ReadBack(file')).mode = "SOFT"
              /\ IF HasCurveName(Entry(file, FanNick))
                 THEN Entry(file', FanNick).SelectedFanCurve
                         = Entry(file, FanNick).SelectedFanCurve
                 ELSE /\ Entry(file', FanNick).SelectedFanCurve # None
                      /\ Get(Entry(file', FanNick).SelectedFanCurve).Name
                            = FirstListedCurve(file)
                      /\ Get(ReadBack(file')).curveName = FirstListedCurve(file) ]_vars

\* An entry in manual mode without a selection, switched to the first of two
\* listed curves, the hidden curve ahead of them passed over
C18_Witness ==
    /\ fx.ev = "setFanModeInJson"
    /\ fx.arg = "SOFT"
    /\ Get(ReadBack(fx.before)).mode = "MAN"
    /\ Entry(fx.before, FanNick).SelectedFanCurve = None
    /\ fx.before.FanCurves[1].IsHidden
    /\ Cardinality(ListedCurves(fx.before)) = 2
    /\ Get(ReadBack(file)).mode = "SOFT"
    /\ Get(ReadBack(file)).curveName = "c1"

\* --------------------------------------------------------------------- C19

\* The fields of a selected-curve reference other than its Name
RefExtra(sel) == IF sel = None THEN None ELSE Get(sel).Extra

\* File f without the fields of the fan's entry the functions are written to
\* set: the two flags, the value, and the Name of the selected curve
Unmodelled(f) ==
    LET k == FindControl(f.Controls, FanNick)
    IN  [f EXCEPT !.Controls[k].Enable = None,
                  !.Controls[k].ManualControl = None,
                  !.Controls[k].ManualControlValue = None,
                  !.Controls[k].SelectedFanCurve = RefExtra(@)]

\* C19: every write (set-mode, set-manual-value, set-curve) changes only the
\* flags, the value and the selected curve's name of the one non-hidden entry
\* of the nickname; the other entries, the hidden entry of the same nickname,
\* the curves, and every other field of the file, of the entry and of its
\* selected-curve reference are after the write what they were before.
C19_Original ==
    [][ (\/ \E value \in JsonValues : CallSetManualValue(value)
         \/ \E targetMode \in ControlModes : CallSetFanMode(targetMode)
         \/ \E curveName \in JsonCurveNames : CallSetSoftwareCurve(curveName))
           => Unmodelled(file') = Unmodelled(file) ]_vars

\* --------------------------------------------------------------------- C20

\* The file is missing, or no entry of it that is not hidden has the nickname
\* the buffered edit is for
C20_NoTarget ==
    \/ file.kind = "missing"
    \/ /\ file.kind = "json"
       /\ \A k \in 1..Len(file.Controls) :
             file.Controls[k].NickName = pendingFanNick => file.Controls[k].IsHidden

\* C20: a flush that finds the file missing, or without a non-hidden entry of
\* the session's fan nickname, leaves the file as it is and launches nothing,
\* and the buffered edit and the debounce timer are cleared.
C20_FailedFlush ==
    [][ \A t \in timers :
          (executePendingWrite(t) /\ C20_NoTarget)
             => /\ file' = file
                /\ fx'.write = "none"
                /\ fx'.launch = "none"
                /\ pendingValue' = None
                /\ pendingCurveIndex' = None
                /\ pendingValueTimer' = None
                /\ DebounceTimers' = {} ]_vars

\* A flush of a buffered edit that found only the hidden entry of the nickname
C20_Witness ==
    /\ fx.ev = "executePendingWrite"
    /\ fx.from = "editing"
    /\ fx.write = "none"
    /\ fx.launch = "none"
    /\ file = RenamedFile
    /\ pendingFanNick = FanNick
    /\ pendingValue = None
    /\ pendingCurveIndex = None
    /\ DebounceTimers = {}

\* --------------------------------------------------------------------- C21

\* What a read of the flush's target finds in file f
FlushTarget(f) == readFanStateFromJson(f, pendingJsonPath, pendingFanNick)

\* C21: in the debounce flush and in the confirm push, launchFanControlConfig
\* is called only after the handler's own file write succeeded: a step of
\* either handler that launched also wrote, and the file the launch finds
\* holds what was written.
C21_WriteThenLaunch ==
    [][ (fx'.launch # "none" /\ fx'.ev \in {"executePendingWrite", "onDialDown"})
           => /\ fx'.write # "none"
              /\ fx'.ev = "executePendingWrite" => fx'.write \in {"manual", "curve"}
              /\ fx'.ev = "onDialDown" => fx'.write = "mode"
              /\ fx'.write = "manual"
                    => /\ FlushTarget(file') # None
                       /\ Get(FlushTarget(file')).mode = "MAN"
                       /\ Get(FlushTarget(file')).value = ClampWrite(Get(pendingValue))
              /\ fx'.write = "curve"
                    => /\ FlushTarget(file') # None
                       /\ Get(FlushTarget(file')).mode = "SOFT"
                       /\ \E k \in 1..Len(Get(FlushTarget(file')).availableCurves) :
                             Get(FlushTarget(file')).availableCurves[k]
                                = Get(FlushTarget(file')).curveName
              /\ fx'.write = "mode"
                    => \E i \in visible : ModeIn(file', hostSettings[i]) = pendingMode ]_vars

\* A flush that wrote the buffered value and then spawned the executable
C21_Witness ==
    /\ fx.ev = "executePendingWrite"
    /\ fx.write = "manual"
    /\ fx.launch = "exe"
    /\ pendingValue = None
    /\ Get(FlushTarget(file)).mode = "MAN"

\* --------------------------------------------------------------------- C22

\* The settings snapshot of every visible dial names a file and a fan, so
\* that a refresh reads the file
C22_ReadsFile ==
    \A i \in visible :
        /\ currentSettings[i] # None
        /\ Get(currentSettings[i]).jsonFile # Null
        /\ Get(currentSettings[i]).fanNick # Null

\* C22: a display refresh that finds the file unreadable aborts: the dial
\* keeps showing what it showed before, and the stored settings are not
\* changed.  Stated for the refresh of a poll, the dial showing what the
\* handler before it sent.
C22_Original ==
    [][ (/\ file.kind = "corrupt"
         /\ fx.shown # None
         /\ C22_ReadsFile
         /\ fx'.ev = "pollTick")
           => /\ fx'.shown \in {None, fx.shown}
              /\ hostSettings' = hostSettings
              /\ currentSettings' = currentSettings ]_vars

\* --------------------------------------------------------------------- C23

\* Dial i is set up for a file and a fan, and the file is missing or has no
\* entry for the fan that is not hidden
C23_NotFound(i) ==
    /\ currentSettings[i] # None
    /\ Get(currentSettings[i]).jsonFile # Null
    /\ Get(currentSettings[i]).fanNick # Null
    /\ \/ file.kind = "missing"
       \/ /\ file.kind = "json"
          /\ \A k \in 1..Len(file.Controls) :
                file.Controls[k].NickName = Get(currentSettings[i]).fanNick
                   => file.Controls[k].IsHidden

\* The neutral state of dial i: the mode of its settings, value 0, no banner
C23_Neutral(i, p) ==
    LET mode == ModeOrAuto(Get(currentSettings[i]).mode)
    IN  /\ p.banner = "NONE"
        /\ p.title = Get(currentSettings[i]).fanNick
        /\ p.modeLabel = (IF mode = "SOFT" THEN "CURVE" ELSE mode)
        /\ p.indicator = Num(0)
        /\ mode = "MAN" => p.text = "%" /\ p.pct = Num(0)
        /\ mode = "AUTO" => p.text = "AUTO"
        /\ mode = "SOFT" => p.text = "None"

\* C23: a missing file or a missing entry is shown as the neutral default
\* state (the mode of the settings, value 0) and never as an error: a payload
\* carries an error banner exactly when isTaskMissing or isVbsMissing is set,
\* and a refresh that finds nothing sets neither flag and calls no showAlert.
C23_NotFoundIsNeutral ==
    [][ /\ fx'.shown # None
           => (Get(fx'.shown).banner # "NONE" <=> (isTaskMissing' \/ isVbsMissing'))
        /\ \A t \in timers :
              (/\ fx'.ev \in {"pollTick", "selectModeTimeout"}
               /\ C23_NotFound(t.ctx)
               /\ (pollTick(t) \/ selectModeTimeout(t)))
                 => /\ isTaskMissing' = isTaskMissing
                    /\ isVbsMissing' = isVbsMissing
                    /\ ~fx'.alert
                    /\ (fx'.shown # None /\ NoErrorLatched)
                          => C23_Neutral(t.ctx, Get(fx'.shown)) ]_vars

\* A poll of a dial in manual mode whose file is gone showed 0 % and no banner
C23_Witness ==
    /\ fx.ev = "pollTick"
    /\ file = NoFile
    /\ \E i \in visible :
          /\ currentSettings[i] # None
          /\ Get(currentSettings[i]).mode = "MAN"
          /\ Get(currentSettings[i]).fanNick = FanNick
    /\ fx.shown # None
    /\ Get(fx.shown).banner = "NONE"
    /\ Get(fx.shown).modeLabel = "MAN"
    /\ Get(fx.shown).pct = Num(0)
    /\ ~fx.alert
    /\ NoErrorLatched

\* --------------------------------------------------------------------- C24

\* The curves a rotation of dial i finds in the file
C24_Curves(i) ==
    LET st == readFanStateFromJson(file, hostSettings[i].jsonFile, hostSettings[i].fanNick)
    IN  IF st = None THEN <<>> ELSE Get(st).availableCurves

\* The index a rotation of dial i starts from: the buffered index if there is
\* one, otherwise the place of the file's curve in the list
C24_Base(i) ==
    LET st == readFanStateFromJson(file, hostSettings[i].jsonFile, hostSettings[i].fanNick)
    IN  IF pendingCurveIndex # None THEN Get(pendingCurveIndex)
        ELSE IndexOf(C24_Curves(i), Get(st).curveName)

\* C24: in SOFT mode with curveCount >= 1 curves a rotation by t buffers the
\* index (base + t) modulo curveCount, for t of any size and sign, base being
\* the buffered index or else the index of the file's curve; the buffered
\* index is within 0..curveCount-1.
C24_Original ==
    [][ \A i \in Dials, ticks \in ScopeOf(scope).ticks :
          (/\ fx'.ev = "onDialRotate"
           /\ ticks # 0
           /\ NoErrorLatched
           /\ ~modeSelectionActive
           /\ FileMode(i) = "SOFT"
           /\ Len(C24_Curves(i)) >= 1
           /\ C24_Base(i) \in 0..(Len(C24_Curves(i)) - 1)
           /\ onDialRotate(i, ticks))
             => /\ pendingCurveIndex' # None
                /\ Get(pendingCurveIndex') \in 0..(Len(C24_Curves(i)) - 1)
                /\ Get(pendingCurveIndex') = (C24_Base(i) + ticks) % Len(C24_Curves(i)) ]_vars

\* --------------------------------------------------------------------- C25

\* The armed poll intervals of dial i
PollTimers(i) == {t \in timers : t.kind = "poll" /\ t.ctx = i}

\* C25: every dial has at most one settings snapshot and at most one poll
\* interval; a visible dial has both, and a dial that disappeared has
\* neither, so that no poll refreshes it.
C25_Original ==
    \A i \in Dials :
        /\ Cardinality(PollTimers(i)) <= 1
        /\ i \in visible
              => /\ currentSettings[i] # None
                 /\ activeIntervals[i] # None
                 /\ Cardinality(PollTimers(i)) = 1
        /\ i \notin visible
              => /\ currentSettings[i] = None
                 /\ activeIntervals[i] = None
                 /\ PollTimers(i) = {}

\* --------------------------------------------------------------------- C26

\* C26: when the settings last received have bypass disabled and every
\* handler has finished (no precondition check is in flight), no error flag
\* is latched, whatever the order of the settings, appear and property
\* inspector events was.
C26_Original ==
    (/\ visible # {}
     /\ inflight = {}
     /\ \A i \in visible : ~hostSettings[i].bypassUac)
        => NoErrorLatched

\* --------------------------------------------------------------------- C27

C28_Label(pm) == IF pm = "MAN" THEN "MANUAL" ELSE IF pm = "AUTO" THEN "AUTO" ELSE "CURVE"

C28_Titles == {buildTitle(FanNick), buildTitle(Null), "SELECT MODE"}
C28_Values == {Num(-5), Num(0), Fraction(42, 1), Num(100), Num(150)}
C28_CurveNames == {AllCurveNames[k] : k \in 1..MaxCurves} \cup {"Unknown", "None"}

\* The banner of the error flags, whatever the rest of the input is
C28_ErrorFirst(p, taskMissing, vbsMissing) ==
    /\ (taskMissing /\ vbsMissing) => p.banner = "BOTH"
    /\ (vbsMissing /\ ~taskMissing) => p.banner = "FILE"
    /\ (taskMissing /\ ~vbsMissing) => p.banner = "TASK"
    /\ (~taskMissing /\ ~vbsMissing) => p.banner = "NONE"
    /\ p.banner # "NONE" => p.title = "ERROR" /\ ~p.select /\ ~p.bar

\* Without an error: the candidate's label and no bar during mode selection,
\* else the percentage, "AUTO" or the curve name
C28_ThenSelection(p, mode, value, curveName, msa, pm) ==
    /\ msa => p.text = C28_Label(pm) /\ ~p.bar /\ p.select
    /\ (~msa /\ mode = "MAN")
          => /\ p.text = "%"
             /\ p.pct \in Num(MinValue)..Num(MaxValue)
             /\ value \in Num(MinValue)..Num(MaxValue) => p.pct = value
    /\ (~msa /\ mode = "AUTO") => p.text = "AUTO" /\ p.pct = NoPct
    /\ (~msa /\ mode = "SOFT") => p.text = curveName /\ p.pct = NoPct

\* the payload is a function of the call's arguments and of the four
\* session fields alone
C28_Mapping ==
    \A title \in C28_Titles, mode \in ControlModes, value \in C28_Values :
      \A curveName \in C28_CurveNames, msa \in BOOLEAN, pm \in ControlModes :
        \A taskMissing \in BOOLEAN, vbsMissing \in BOOLEAN :
          LET p == buildFeedbackPayload(title, mode, value, curveName, msa, pm, taskMissing, vbsMissing)
          IN  /\ C28_ErrorFirst(p, taskMissing, vbsMissing)
              /\ p.banner # "NONE"
                    => \A m2 \in ControlModes, v2 \in C28_Values, s2 \in BOOLEAN :
                          buildFeedbackPayload(title, m2, v2, curveName, s2, pm, taskMissing, vbsMissing) = p
              /\ p.banner = "NONE"
                    => C28_ThenSelection(p, mode, value, curveName, msa, pm)

\* C28: buildFeedbackPayload maps its arguments and the session's flags to a
\* payload and changes nothing.  An error flag comes first: both flags give
\* the banner BOTH, the script alone FILE, the task alone TASK, whatever
\* the mode, the value and the mode-selection flag are.  Without an
\* error, during mode selection the value text is the label of the candidate
\* mode (pendingMode), not of the persisted mode, and no bar is drawn;
\* otherwise the value text is the percentage (MAN), "AUTO" or the curve
\* name.  Every payload a handler sends agrees with the session it leaves.
C28_PayloadPriority ==
    /\ C28_Mapping
    /\ (fx.shown # None /\ fx.ev # "externalWrite")
          => LET p == Get(fx.shown)
             IN  /\ p.banner = ErrorType(isTaskMissing, isVbsMissing)
                 /\ (p.banner = "NONE" /\ modeSelectionActive)
                       => p.text = C28_Label(pendingMode) /\ ~p.bar
                 /\ (p.banner = "NONE" /\ ~modeSelectionActive)
                       => /\ p.text \in {"%", "AUTO"} \cup C28_CurveNames
                          /\ p.bar = (p.text = "%")

\* the dial shows the candidate CURVE while the file still says MAN
C28_Witness ==
    /\ modeSelectionActive
    /\ pendingMode = "SOFT"
    /\ fx.ev = "onDialRotate"
    /\ fx.shown # None
    /\ Get(fx.shown).banner = "NONE"
    /\ Get(fx.shown).text = "CURVE"
    /\ Get(fx.shown).modeLabel = "MAN"
    /\ ~Get(fx.shown).bar
    /\ \E i \in visible :
          LET st == readFanStateFromJson(file, hostSettings[i].jsonFile, hostSettings[i].fanNick)
          IN  st # None /\ Get(st).mode = "MAN"

\* --------------------------------------------------------------------- C29

\* What the launch may be for the arguments exePath, jsonPath, bypassUac, the
\* executable being on disk or not, and the two latched flags
C29_Allowed(l, exePath, jsonPath, bypassUac, exeExists, taskMissing, vbsMissing) ==
    /\ l \in {"vbs", "task", "exe", "nothing"}
    /\ bypassUac => l # "exe"
    /\ (exePath = Null \/ ~exeExists \/ jsonPath = Null) => l = "nothing"
    /\ (exePath # Null /\ exeExists /\ jsonPath # Null)
          => /\ (bypassUac /\ ~taskMissing /\ ~vbsMissing) => l = "vbs"
             /\ (bypassUac /\ ~taskMissing /\ vbsMissing) => l = "task"
             /\ (bypassUac /\ taskMissing) => l = "nothing"
             /\ ~bypassUac => l = "exe"

C29_Mapping ==
    \A exePath \in {Null, ExePath}, jsonPath \in {Null, CfgPath}, bypassUac \in BOOLEAN :
      \A exeExists \in BOOLEAN, taskMissing \in BOOLEAN, vbsMissing \in BOOLEAN :
        C29_Allowed(launchFanControlConfig(exePath, jsonPath, bypassUac, exeExists, taskMissing, vbsMissing),
                    exePath, jsonPath, bypassUac, exeExists, taskMissing, vbsMissing)

\* C29: launchFanControlConfig never spawns the executable itself when
\* bypass is enabled: it then triggers the helper script when neither flag is
\* latched, the scheduled task alone when only the script is missing, and
\* nothing when the task is missing; with bypass disabled it spawns the
\* executable with the configuration file as argument; without an
\* executable on disk or without a configuration path it launches nothing.
\* Every launch of the debounce flush, of the confirming push and of a
\* settings change is the one its arguments allow.
C29_LaunchByBypass ==
       [][ /\ C29_Mapping
           /\ (fx'.ev = "executePendingWrite" /\ fx'.launch # "none")
                => C29_Allowed(fx'.launch, pendingFanExe, pendingJsonPath, pendingBypassUac,
                               env.exe, isTaskMissing, isVbsMissing)
           /\ (fx'.ev = "onDialDown" /\ fx'.launch # "none")
                => \E i \in visible :
                      C29_Allowed(fx'.launch, hostSettings[i].fanExe, hostSettings[i].jsonFile,
                                  hostSettings[i].bypassUac, env.exe, isTaskMissing, isVbsMissing)
           /\ \A c \in inflight :
                (/\ fx'.ev = "onDidReceiveSettings"
                 /\ fx'.launch # "none"
                 /\ c.then = "settings"
                 /\ UacChecksThenSettings(c))
                    => C29_Allowed(fx'.launch, c.settings.fanExe, c.settings.jsonFile,
                                   c.settings.bypassUac, env.exe, isTaskMissing', isVbsMissing')
           /\ fx'.launch = "vbs" => ~isTaskMissing' /\ ~isVbsMissing'
           /\ fx'.launch = "task" => ~isTaskMissing' /\ isVbsMissing'
         ]_vars

\* a flush with bypass enabled and only the script missing runs the task
C29_Witness ==
    /\ fx.ev = "executePendingWrite"
    /\ fx.write = "manual"
    /\ fx.launch = "task"
    /\ pendingBypassUac
    /\ ~isTaskMissing
    /\ isVbsMissing
    /\ env.exe

\* --------------------------------------------------------------------- C30

\* The fan names the writing handler may be writing for
C30_Nicks ==
    IF fx'.ev = "executePendingWrite" THEN {pendingFanNick}
    ELSE {hostSettings[i].fanNick : i \in visible}

\* Entry k of the file after the write is entry k of the file the write
\* found, but for the fields the write sets
C30_EntryWritten(old, new) ==
    /\ new.NickName = old.NickName
    /\ new.IsHidden = old.IsHidden
    /\ new.Extra = old.Extra
    /\ fx'.write = "manual"
          => /\ new.SelectedFanCurve = old.SelectedFanCurve
             /\ new.Enable = Some(TRUE)
             /\ new.ManualControl = Some(TRUE)
             /\ pendingValue # None
             /\ new.ManualControlValue = Some(ClampWrite(Get(pendingValue)))
    /\ fx'.write = "curve"
          => /\ new.ManualControlValue = old.ManualControlValue
             /\ new.Enable = Some(TRUE)
             /\ new.ManualControl = Some(FALSE)
             /\ new.SelectedFanCurve # None
             /\ \E c \in 1..Len(file.FanCurves) :
                   /\ ~file.FanCurves[c].IsHidden
                   /\ file.FanCurves[c].Name = Get(new.SelectedFanCurve).Name
    /\ fx'.write = "mode"
          => /\ new.ManualControlValue = old.ManualControlValue
             /\ ModeOfFlags(new.Enable, new.ManualControl) = pendingMode
             /\ (pendingMode # "SOFT" \/ HasCurveName(old))
                    => new.SelectedFanCurve = old.SelectedFanCurve

\* C30: every write reads the file again when it writes and writes nothing
\* back that was read earlier: whatever FanControl or the user changed in
\* the file between the rotation that buffered the edit and the debounce
\* flush, or between the start of mode selection and the confirming push,
\* the file after the write is the file found at the write, with its curves,
\* its other entries and the other fields of the entry, and with the new
\* fields in the entry of the dial's fan.
C30_WriteOnFreshFile ==
    [][ (fx'.write # "none" /\ fx'.ev \in {"executePendingWrite", "onDialDown"})
           => /\ file.kind = "json"
              /\ file'.kind = "json"
              /\ file'.FanCurves = file.FanCurves
              /\ file'.Other = file.Other
              /\ Len(file'.Controls) = Len(file.Controls)
              /\ \E nick \in C30_Nicks :
                    LET k == FindControl(file.Controls, nick)
                    IN  /\ k # 0
                        /\ \A j \in 1..Len(file.Controls) :
                              j # k => file'.Controls[j] = file.Controls[j]
                        /\ C30_EntryWritten(file.Controls[k], file'.Controls[k]) ]_vars

\* the flush of a buffered percentage into the file FanControl saved meanwhile
C30_Witness ==
    /\ fx.ev = "executePendingWrite"
    /\ fx.write = "manual"
    /\ fx.raced
    /\ file.kind = "json"
    /\ file.Other = EditedElsewhere.Other
    /\ file.FanCurves = EditedElsewhere.FanCurves
    /\ file.Controls[3] = EditedElsewhere.Controls[3]
    /\ file.Controls[2].Extra = EditedElsewhere.Controls[2].Extra
    /\ file.Controls[2].SelectedFanCurve = SelectedCurve(1)
    /\ file.Controls[2].ManualControlValue # EditedElsewhere.Controls[2].ManualControlValue

\* the same for a confirming push
C30_WitnessPush ==
    /\ fx.ev = "onDialDown"
    /\ fx.write = "mode"
    /\ fx.raced
    /\ file.kind = "json"
    /\ file.Other = EditedElsewhere.Other
    /\ file.Controls[3] = EditedElsewhere.Controls[3]
    /\ file.Controls[2].Enable = Some(FALSE)

\* --------------------------------------------------------------------- C31

C31_Stale == ~modeSelectionActive /\ SelectTimers # {} /\ fx.ev \in {"onDidReceiveSettings", "onWillAppear"}

\* --------------------------------------------------------------------- C32

\* C32: mode selection and a buffered edit exclude each other: while
\* modeSelectionActive is true, pendingValue and pendingCurveIndex are both
\* null and no debounce timer is armed.
C32_SelectionExcludesEdit ==
    modeSelectionActive
        => /\ pendingValue = None
           /\ pendingCurveIndex = None
           /\ pendingValueTimer = None
           /\ DebounceTimers = {}

\* the push that started mode selection dropped a buffered edit
C32_Witness ==
    /\ modeSelectionActive
    /\ fx.ev = "onDialDown"
    /\ fx.from = "editing"
    /\ pendingValue = None
    /\ pendingCurveIndex = None
    /\ DebounceTimers = {}

\* --------------------------------------------------------------------- C33

\* C33: between handlers a debounce timer is armed exactly when one of
\* pendingValue and pendingCurveIndex is non-null; the two are never non-null
\* together, and a buffered edit always has its write target
\* (pendingJsonPath and pendingFanNick non-null).
C33_TimerIffEdit ==
    /\ (DebounceTimers # {}) <=> (pendingValue # None \/ pendingCurveIndex # None)
    /\ ~(pendingValue # None /\ pendingCurveIndex # None)
    /\ (pendingValue # None \/ pendingCurveIndex # None)
          => pendingJsonPath # Null /\ pendingFanNick # Null

\* a later rotation of a burst has buffered a curve index and armed the timer again
C33_Witness ==
    /\ fx.ev = "onDialRotate"
    /\ fx.from = "editing"
    /\ pendingCurveIndex # None
    /\ pendingValue = None
    /\ Cardinality(DebounceTimers) = 1
    /\ pendingJsonPath = CfgPath
    /\ pendingFanNick = FanNick
    /\ fx.shown # None
    /\ Get(fx.shown).modeLabel = "CURVE"

\* --------------------------------------------------------------------- C34

C34_Suppressing ==
    modeSelectionActive \/ pendingValue # None \/ pendingCurveIndex # None

C35_Fired ==
    {t \in DebounceTimers \cup SelectTimers :
        t \notin timers' /\ fx'.ev \in {"executePendingWrite", "selectModeTimeout"}}

\* C35: when a dial disappears its timers go with its session: unless the
\* dial has appeared again, no debounce flush and no mode-selection timeout
\* of that dial fires after onWillDisappear, so nothing is written to the
\* file and nothing is launched for an edit buffered before it disappeared.
C35_Original ==
    [][ \A t \in C35_Fired :
            t.ctx \notin visible
                => /\ fx'.ev # "executePendingWrite"
                   /\ fx'.ev # "selectModeTimeout"
                   /\ fx'.write = "none"
                   /\ fx'.launch = "none"
                   /\ file' = file ]_vars

\* a flush that wrote and launched for a dial that had disappeared
C35_WriteAfterDisappear ==
    /\ fx.ev = "executePendingWrite"
    /\ fx.write = "manual"
    /\ fx.launch = "exe"
    /\ visible = {}

\* --------------------------------------------------------------------- C36

C36_EditBuffered == pendingValue # None \/ pendingCurveIndex # None

\* C36: while an edit is buffered, the payload the device shows is the one
\* of the buffered percentage or curve, never the file's: only a rotation
\* sends a payload while pendingValue or pendingCurveIndex is non-null; a
\* mode-selection timeout armed before a settings change or a re-appearance,
\* or the end of a precondition check, renders nothing from the file then.
C36_Original ==
    [][ (C36_EditBuffered' /\ fx'.shown # None /\ fx'.ev # "externalWrite")
           => /\ fx'.ev = "onDialRotate"
              /\ Get(fx'.shown).banner = "NONE"
              /\ pendingValue' # None
                    => /\ Get(fx'.shown).text = "%"
                       /\ Get(fx'.shown).pct = Get(pendingValue')
              /\ pendingCurveIndex' # None
                    => Get(fx'.shown).modeLabel = "CURVE" ]_vars

\* the timeout of a selection that a settings change ended has rendered the
\* file's value over a buffered one
C36_StaleTimeoutRenders ==
    /\ fx.ev = "selectModeTimeout"
    /\ pendingValue # None
    /\ fx.shown # None
    /\ Get(fx.shown).text = "%"
    /\ Get(fx.shown).pct # Get(pendingValue)

\* --------------------------------------------------------------------- C37

\* C37: a settings change and a re-appearance abandon a buffered edit:
\* onDidReceiveSettings (before it awaits the precondition check) and
\* onWillAppear cancel the debounce timer, clear the buffered percentage, the
\* buffered curve index and the write target, and leave mode selection; the
\* file is not written, so the edit buffered before the event is never
\* written and the candidate chosen before it is never confirmed.
C37_EventAbandonsEdit ==
    [][ (fx'.ev \in {"onDidReceiveSettings", "onWillAppear"} /\ inflight \subseteq inflight')
           => /\ ~modeSelectionActive'
              /\ pendingValue' = None
              /\ pendingCurveIndex' = None
              /\ pendingValueTimer' = None
              /\ pendingJsonPath' = Null
              /\ pendingFanNick' = Null
              /\ pendingFanExe' = Null
              /\ DebounceTimers' = {}
              /\ file' = file
              /\ fx'.write = "none" ]_vars

\* a settings change has dropped a buffered percentage
C37_Witness ==
    /\ fx.ev = "onDidReceiveSettings"
    /\ fx.from = "editing"
    /\ pendingValue = None
    /\ pendingCurveIndex = None
    /\ pendingJsonPath = Null
    /\ DebounceTimers = {}
    /\ ~modeSelectionActive
    /\ file.kind = "json"
    /\ file.Controls[2].ManualControlValue = Some(Num(10))

\* --------------------------------------------------------------------- C38

\* The curve name in the entry of the fan the flush writes for
C38_Written ==
    Get(file'.Controls[FindControl(file'.Controls, pendingFanNick)].SelectedFanCurve).Name

\* C38: the curve a debounce flush writes is the curve whose name the last
\* rotation of the burst displayed, also when FanControl changed the file's
\* list of curves between that rotation and the flush.  (With no
\* mode-selection timeout ever left to fire, the payload on the device at the
\* flush is the one of that rotation.)
C38_Original ==
    [][ (/\ fx'.ev = "executePendingWrite"
         /\ fx'.write = "curve"
         /\ fx.ev \in {"onDialRotate", "externalWrite"}
         /\ selectModeTimeoutTimer = None
         /\ fx.shown # None
         /\ Get(fx.shown).modeLabel = "CURVE"
         /\ ~Get(fx.shown).select)
            => C38_Written = Get(fx.shown).text ]_vars

\* --------------------------------------------------------------------- C39

\* The entry of the fan a flush writes for, in file f
C39_Entry(f) == f.Controls[FindControl(f.Controls, pendingFanNick)]

\* C39 as stated: a debounce flush changes only the field the user edited
\* and never the fan's mode: the Enable and ManualControl flags FanControl or
\* the user set between the rotation and the flush are left as they are.
C39_Original ==
    [][ (fx'.ev = "executePendingWrite" /\ fx'.write # "none")
           => /\ C39_Entry(file').Enable = C39_Entry(file).Enable
              /\ C39_Entry(file').ManualControl = C39_Entry(file).ManualControl ]_vars

\* C39: a debounce flush writes the edited field and puts the fan in the
\* mode of the edit, whatever mode the file's entry was switched to between
\* the rotation and the flush: after the flush of a buffered percentage the
\* entry reads as MAN (Enable and ManualControl true) with the curve left as
\* found, after the flush of a buffered curve index it reads as SOFT (Enable
\* true, ManualControl false) with the percentage left as found.
C39_FlushSetsMode ==
    [][ (fx'.ev = "executePendingWrite" /\ fx'.write # "none")
           => LET old == C39_Entry(file)
                  new == C39_Entry(file')
                  read == readFanStateFromJson(file', pendingJsonPath, pendingFanNick)
              IN  /\ read # None
                  /\ fx'.write = "manual"
                        => /\ Get(read).mode = "MAN"
                           /\ new.Enable = Some(TRUE)
                           /\ new.ManualControl = Some(TRUE)
                           /\ new.SelectedFanCurve = old.SelectedFanCurve
                  /\ fx'.write = "curve"
                        => /\ Get(read).mode = "SOFT"
                           /\ new.Enable = Some(TRUE)
                           /\ new.ManualControl = Some(FALSE)
                           /\ new.ManualControlValue = old.ManualControlValue ]_vars

\* the flush of a buffered curve index into the file FanControl saved with
\* the fan in MAN: the entry is SOFT again
C39_Witness ==
    /\ fx.ev = "executePendingWrite"
    /\ fx.write = "curve"
    /\ fx.raced
    /\ file.kind = "json"
    /\ file.Other = EditedElsewhere.Other
    /\ EditedElsewhere.Controls[2].ManualControl = Some(TRUE)
    /\ file.Controls[2].Enable = Some(TRUE)
    /\ file.Controls[2].ManualControl = Some(FALSE)
    /\ file.Controls[2].ManualControlValue = EditedElsewhere.Controls[2].ManualControlValue

\* --------------------------------------------------------------------- C40

\* The 0-based place of mode m in AUTO, MAN, SOFT
C40_Place(m) == IndexOf(Modes, m)

\* C40: during mode selection (no error latched) one rotation moves the
\* candidate by exactly one place, forward for a positive tick count and
\* backward for a negative one, whatever its magnitude, and arms the
\* timeout; a rotation with tick count 0 changes nothing: candidate,
\* selection, timers and file stay, and nothing is sent to the device.
C40_SignOnly ==
    [][ \A i \in Dials, ticks \in ScopeOf(scope).ticks :
          /\ ( /\ fx'.ev = "onDialRotate"
               /\ ticks # 0
               /\ modeSelectionActive
               /\ NoErrorLatched
               /\ onDialRotate(i, ticks) )
                => /\ C40_Place(pendingMode') =
                        (C40_Place(pendingMode) + (IF ticks > 0 THEN 1 ELSE 2)) % 3
                   /\ pendingMode' = cyclePendingMode(pendingMode, IF ticks > 0 THEN 1 ELSE -1)
                   /\ modeSelectionActive'
                   /\ Cardinality(SelectTimers') = 1
                   /\ fx'.shown # None
          /\ ( /\ fx'.ev = "onDialRotate"
               /\ ticks = 0
               /\ onDialRotate(i, ticks) )
                => /\ UNCHANGED <<session, timers, file, hostSettings, currentSettings>>
                   /\ fx'.shown = None
      ]_vars

\* a backward rotation by many ticks during the selection on a dial in SOFT
\* made MAN the candidate
C40_Witness ==
    /\ scope = "edit"
    /\ fx.ev = "onDialRotate"
    /\ fx.from = "selecting"
    /\ modeSelectionActive
    /\ NoErrorLatched
    /\ pendingMode = "MAN"
    /\ \E i \in visible : hostSettings[i].mode = "SOFT"
    /\ fx.shown # None
    /\ Get(fx.shown).text = "MANUAL"

====
